---- MODULE Spec2Model ----
(***************************************************************************)
(* A model of the TTS tool module src/mcp_servers/tts_tools.py: the text   *)
(* chunker, the chunked synthesis pipeline, the audio cache and the        *)
(* playback controller.                                                    *)
(*                                                                         *)
(* Strings are run-length encoded: a string is a sequence of runs          *)
(* [ch |-> c, n |-> k] (k >= 1 copies of the character c) in which         *)
(* adjacent runs carry different characters, so that equal strings have    *)
(* equal encodings and texts of more than FIXED_CHUNK_SIZE characters      *)
(* stay small values.                                                      *)
(***************************************************************************)
EXTENDS Integers, Sequences, FiniteSets, TLC

VARIABLES
    splitText,      \* smart_text_split: the argument text
    splitDone,      \* smart_text_split: has returned
    splitChunks,    \* smart_text_split: the returned list of chunks
    synText,        \* synthesize_long_text: the argument text
    synChunks,      \* synthesize_long_text: chunks, as smart_text_split returned it
    synDone,        \* synthesize_long_text: has returned
    synResult,      \* synthesize_long_text: what it returned and what it did
    chunkCall,      \* synthesize_chunk: its text, the API's outcomes, what it did
    system,         \* platform.system().lower()
    now,            \* datetime.now(), in hours
    entries,        \* audio_cache.entries: the index, in insertion order
    files,          \* the audio files that exist in FIXED_AUDIO_DIR, by file_id
    nextId,         \* the next file_id uuid.uuid4() hands out
    procs,          \* the player processes that are running
    nextPid,        \* the next process subprocess.Popen starts
    info,           \* _current_playback_info
    audioProcess,   \* _current_audio_process
    ncalls,         \* the number of text_to_speech calls made
    quiet,          \* nothing has happened since the last text_to_speech call
    last,           \* the last text_to_speech call: its arguments and what it did
    cacheOp,        \* the last call of the cache: its arguments and what it did
    indexFile,      \* the cache index file on disk
    indexOp,        \* the save in progress, what was saved and what was loaded
    stopCall,       \* the last call of the stop_audio tool: what it met and did
    depEnv,         \* what is installed and writable: the capabilities checked
    depCheck,       \* _dependency_check_result, _timestamp and _completed
    depCall,        \* the last call of check_system_dependencies
    mergeCall,      \* merge_audio_files: its arguments, what it met and made
    k8s,            \* the Kubernetes MCP server: environment, argv, switches, tools
    k8sCall,        \* the last tool call of that server: what it did on the cluster
    fx,             \* play_audio_file_sync with effects: its temporary files
    pc,             \* where each thread is in play_audio_file_sync
    local           \* each thread's `process` and the value its last call returned

splitVars == <<splitText, splitDone, splitChunks>>
synVars == <<synText, synChunks, synDone, synResult, chunkCall>>
cacheVars == <<now, entries, files, nextId>>
playVars == <<procs, nextPid, info, audioProcess>>
callVars == <<ncalls, quiet, last, cacheOp>>
threadVars == <<pc, local>>
diskVars == <<indexFile, indexOp>>
depVars == <<depEnv, depCheck, depCall>>
k8sVars == <<k8s, k8sCall>>
sideVars == <<mergeCall, k8sVars, fx>>
auxVars == <<depVars, sideVars>>

vars == <<splitText, splitDone, splitChunks, synText, synChunks, synDone,
          synResult, chunkCall, system, now, entries, files, nextId, procs, nextPid,
          info, audioProcess, ncalls, quiet, last, cacheOp, indexFile,
          indexOp, stopCall, depEnv, depCheck, depCall, mergeCall, k8s, k8sCall,
          fx, pc, local>>

(***************************************************************************)
(* Program constants.                                                      *)
(***************************************************************************)
FIXED_CHUNK_SIZE == 1200
MIN_CHUNK_SIZE == 50
MAX_RETRIES == 3
\* in seconds
BASE_DELAY == 1
MAX_DELAY == 10
MAX_CACHE_FILES == 50
CACHE_RETENTION_HOURS == 168
\* the minimum number of digits of a chunk file's number: f"chunk_{i:03d}.mp3"
CHUNK_NUMBER_WIDTH == 3

(***************************************************************************)
(* Bounds of the model.                                                    *)
(***************************************************************************)
MaxRuns == 3
\* synthesize_long_text is run on every chunk count up to SmallChunks, and on
\* MaxChunks - 1 and MaxChunks chunks
SmallChunks == 4
MaxChunks == 1000
\* text_to_speech is called at most MaxCalls times
MaxCalls == 2
\* the clock stops at MaxTime hours
MaxTime == 220
NumThreads == 2
MaxProcs == 3
\* the temporary files one run creates
MaxTemps == 2
\* random.uniform(0, 1) draws a multiple of 1 / JitterSteps; the delays are
\* counted in that unit
JitterSteps == 2

(***************************************************************************)
(* Strings (str) and the operations of Python the module uses on them.     *)
(***************************************************************************)
Run(c, k) == [ch |-> c, n |-> k]

EmptyStr == <<>>

RECURSIVE StrLen(_)
StrLen(s) == IF s = <<>> THEN 0 ELSE s[1].n + StrLen(Tail(s))

\* s + t
Cat(s, t) ==
    IF s = <<>> THEN t
    ELSE IF t = <<>> THEN s
    ELSE IF s[Len(s)].ch = t[1].ch
         THEN SubSeq(s, 1, Len(s) - 1)
              \o <<Run(t[1].ch, s[Len(s)].n + t[1].n)>>
              \o Tail(t)
         ELSE s \o t

\* s[:k]
RECURSIVE StrTake(_, _)
StrTake(s, k) ==
    IF k <= 0 \/ s = <<>> THEN <<>>
    ELSE IF s[1].n <= k THEN <<s[1]>> \o StrTake(Tail(s), k - s[1].n)
    ELSE <<Run(s[1].ch, k)>>

\* s[k:]
RECURSIVE StrDrop(_, _)
StrDrop(s, k) ==
    IF k <= 0 \/ s = <<>> THEN s
    ELSE IF s[1].n <= k THEN StrDrop(Tail(s), k - s[1].n)
    ELSE <<Run(s[1].ch, s[1].n - k)>> \o Tail(s)

Whitespace == {" "}

\* s.strip(): adjacent runs differ, so at most one run of whitespace leads
\* and at most one trails.
StrStrip(s) ==
    LET a == IF s # <<>> /\ s[1].ch \in Whitespace THEN Tail(s) ELSE s
    IN  IF a # <<>> /\ a[Len(a)].ch \in Whitespace
        THEN SubSeq(a, 1, Len(a) - 1)
        ELSE a

\* re.split(r'([<seps>]+)', s): the text pieces at the odd places and the
\* separator runs, kept by the capturing group, at the even places; a text
\* piece is empty where s starts or ends with a separator.
RECURSIVE ReSplitFrom(_, _, _)
ReSplitFrom(s, seps, parts) ==
    IF s = <<>>
    THEN IF Len(parts) % 2 = 0 THEN Append(parts, EmptyStr) ELSE parts
    ELSE LET r == s[1]
             inSep == Len(parts) % 2 = 0
             piece == parts[Len(parts)]
             front == SubSeq(parts, 1, Len(parts) - 1)
         IN  IF (r.ch \in seps) = inSep
             THEN ReSplitFrom(Tail(s), seps, Append(front, Cat(piece, <<r>>)))
             ELSE ReSplitFrom(Tail(s), seps, Append(parts, <<r>>))

ReSplit(s, seps) == ReSplitFrom(s, seps, <<EmptyStr>>)

(***************************************************************************)
(* smart_text_split                                                        *)
(***************************************************************************)
\* the character classes of the two patterns; a character outside ASCII is
\* written as its code point: the full-width full stop, exclamation mark
\* and question mark, the full-width comma and semicolon
SentenceEndings == {"U+3002", "U+FF01", "U+FF1F", ".", "!", "?"}
CommaMarks == {"U+FF0C", "U+FF1B", ",", ";"}

\* sentence_endings.match(s): s starts with a sentence ending
MatchesEnding(s) == s # <<>> /\ s[1].ch \in SentenceEndings

\* the forced character split of a part longer than max_size
RECURSIVE HardSplit(_, _)
HardSplit(chunks, temp_chunk) ==
    IF StrLen(temp_chunk) > FIXED_CHUNK_SIZE
    THEN HardSplit(Append(chunks, StrTake(temp_chunk, FIXED_CHUNK_SIZE)),
                   StrDrop(temp_chunk, FIXED_CHUNK_SIZE))
    ELSE [chunks |-> chunks, temp_chunk |-> temp_chunk]

\* the loop over comma_parts
RECURSIVE CommaLoop(_, _, _, _)
CommaLoop(comma_parts, k, chunks, temp_chunk) ==
    IF k > Len(comma_parts)
    THEN [chunks |-> chunks, temp_chunk |-> temp_chunk]
    ELSE LET part == comma_parts[k]
         IN  IF StrLen(Cat(temp_chunk, part)) <= FIXED_CHUNK_SIZE
             THEN CommaLoop(comma_parts, k + 1, chunks, Cat(temp_chunk, part))
             ELSE LET saved == IF StrStrip(temp_chunk) # EmptyStr
                               THEN Append(chunks, StrStrip(temp_chunk))
                               ELSE chunks
                      hs == HardSplit(saved, part)
                  IN  CommaLoop(comma_parts, k + 1, hs.chunks, hs.temp_chunk)

\* the while loop over sentences
RECURSIVE SentenceLoop(_, _, _, _)
SentenceLoop(sentences, i, chunks, current_chunk) ==
    IF i > Len(sentences)
    THEN [chunks |-> chunks, current_chunk |-> current_chunk]
    ELSE LET withPunct == i + 1 <= Len(sentences)
                          /\ MatchesEnding(sentences[i + 1])
             sentence == IF withPunct
                         THEN Cat(sentences[i], sentences[i + 1])
                         ELSE sentences[i]
             next_i == IF withPunct THEN i + 2 ELSE i + 1
         IN  IF StrLen(Cat(current_chunk, sentence)) <= FIXED_CHUNK_SIZE
             THEN SentenceLoop(sentences, next_i, chunks,
                               Cat(current_chunk, sentence))
             ELSE LET flush == StrStrip(current_chunk) # EmptyStr
                      saved == IF flush
                               THEN Append(chunks, StrStrip(current_chunk))
                               ELSE chunks
                      cleared == IF flush THEN EmptyStr ELSE current_chunk
                  IN  IF StrLen(sentence) > FIXED_CHUNK_SIZE
                      THEN LET cl == CommaLoop(ReSplit(sentence, CommaMarks),
                                               1, saved, EmptyStr)
                           IN  SentenceLoop(sentences, next_i, cl.chunks,
                                   IF StrStrip(cl.temp_chunk) # EmptyStr
                                   THEN cl.temp_chunk
                                   ELSE cleared)
                      ELSE SentenceLoop(sentences, next_i, saved, sentence)

\* a post-pass that leaves out a short chunk that is not the last one
FilterLoop_drop(chunks, i, filtered_chunks) ==
    LET Kept(k) == StrLen(chunks[k]) >= MIN_CHUNK_SIZE \/ k = Len(chunks)
        numbers == SelectSeq([k \in 1..Len(chunks) |-> k], Kept)
    IN  [k \in 1..Len(numbers) |-> chunks[numbers[k]]]

\* a post-pass that keeps every chunk as it is
FilterLoop_keep(chunks, i, filtered_chunks) == chunks

\* the post-pass over chunks: a short chunk that is not the last one is
\* appended to the previous kept chunk
RECURSIVE FilterLoop(_, _, _)
FilterLoop(chunks, i, filtered_chunks) ==
    IF i > Len(chunks) THEN filtered_chunks
    ELSE IF StrLen(chunks[i]) >= MIN_CHUNK_SIZE \/ i = Len(chunks)
         THEN FilterLoop(chunks, i + 1, Append(filtered_chunks, chunks[i]))
         ELSE IF filtered_chunks # <<>>
              THEN FilterLoop(chunks, i + 1,
                       [filtered_chunks EXCEPT ![Len(filtered_chunks)] =
                            Cat(@, chunks[i])])
              ELSE FilterLoop(chunks, i + 1, Append(filtered_chunks, chunks[i]))

\* a smart_text_split that trims a text it does not split
smart_text_split_trimmed(text) ==
    IF StrLen(text) <= FIXED_CHUNK_SIZE THEN <<StrStrip(text)>>
    ELSE LET sl == SentenceLoop(ReSplit(text, SentenceEndings), 1, <<>>, EmptyStr)
             chunks == IF StrStrip(sl.current_chunk) # EmptyStr
                       THEN Append(sl.chunks, StrStrip(sl.current_chunk))
                       ELSE sl.chunks
         IN  FilterLoop(chunks, 1, <<>>)

\* chunks as it is when the post-pass of smart_text_split begins, for a
\* text longer than FIXED_CHUNK_SIZE
ChunksBeforePostPass(text) ==
    LET sl == SentenceLoop(ReSplit(text, SentenceEndings), 1, <<>>, EmptyStr)
    IN  IF StrStrip(sl.current_chunk) # EmptyStr
        THEN Append(sl.chunks, StrStrip(sl.current_chunk))
        ELSE sl.chunks

smart_text_split(text) ==
    IF StrLen(text) <= FIXED_CHUNK_SIZE THEN <<text>>
    ELSE LET sl == SentenceLoop(ReSplit(text, SentenceEndings), 1, <<>>, EmptyStr)
             chunks == IF StrStrip(sl.current_chunk) # EmptyStr
                       THEN Append(sl.chunks, StrStrip(sl.current_chunk))
                       ELSE sl.chunks
         IN  FilterLoop(chunks, 1, <<>>)


(***************************************************************************)
(* synthesize_chunk, merge_audio_files and synthesize_long_text.           *)
(*                                                                         *)
(* The synthesis API is an input: `fails` is the number of leading         *)
(* attempts on which the API call raises or leaves a missing or empty      *)
(* output file (MAX_RETRIES + 1: every attempt fails).                     *)
(***************************************************************************)
\* for attempt in range(MAX_RETRIES + 1): ...; api_calls counts the calls of
\* communicate.save, attempts the passes of the loop, and sleeps lists the
\* attempts after which asyncio.sleep(delay) was called
RECURSIVE AttemptLoop(_, _, _)
AttemptLoop(attempt, text, fails) ==
    IF attempt > MAX_RETRIES
    THEN [ok |-> FALSE, api_calls |-> 0, attempts |-> 0, sleeps |-> <<>>]
    ELSE IF StrStrip(text) = EmptyStr
    THEN [ok |-> FALSE, api_calls |-> 0, attempts |-> 1, sleeps |-> <<>>]
    ELSE IF attempt >= fails
    THEN [ok |-> TRUE, api_calls |-> 1, attempts |-> 1, sleeps |-> <<>>]
    ELSE IF attempt < MAX_RETRIES
         THEN LET rest == AttemptLoop(attempt + 1, text, fails)
              IN  [ok |-> rest.ok, api_calls |-> rest.api_calls + 1,
                   attempts |-> rest.attempts + 1,
                   sleeps |-> <<attempt>> \o rest.sleeps]
         ELSE [ok |-> FALSE, api_calls |-> 1, attempts |-> 1, sleeps |-> <<>>]

\* a delay that grows by BASE_DELAY with every attempt
BackoffDelay_linear(attempt, jitter) ==
    LET delay == BASE_DELAY * (attempt + 1) * JitterSteps + jitter
    IN  IF delay <= MAX_DELAY * JitterSteps THEN delay
        ELSE MAX_DELAY * JitterSteps

\* min(BASE_DELAY * (2 ** attempt) + random.uniform(0, 1), MAX_DELAY), with
\* jitter what random.uniform returned, both in units of 1 / JitterSteps
BackoffDelay(attempt, jitter) ==
    LET delay == BASE_DELAY * (2 ^ attempt) * JitterSteps + jitter
    IN  IF delay <= MAX_DELAY * JitterSteps THEN delay
        ELSE MAX_DELAY * JitterSteps

\* a synthesize_chunk whose loop is range(1, MAX_RETRIES + 1)
synthesize_chunk_one_less(text, fails) == AttemptLoop(1, text, fails + 1)

\* a synthesize_chunk that takes a blank text for a failed attempt
synthesize_chunk_blank_retried(text, fails) ==
    IF StrStrip(text) = EmptyStr
    THEN [ok |-> FALSE, api_calls |-> 0, attempts |-> MAX_RETRIES + 1,
          sleeps |-> [k \in 1..MAX_RETRIES |-> k - 1]]
    ELSE AttemptLoop(0, text, fails)

synthesize_chunk(text, fails) == AttemptLoop(0, text, fails)

\* str(i) as the code points of its digits
RECURSIVE Digits(_)
Digits(i) ==
    IF i < 10 THEN <<48 + i>> ELSE Append(Digits(i \div 10), 48 + (i % 10))

ZeroPad(s, width) ==
    IF Len(s) >= width THEN s ELSE [k \in 1..(width - Len(s)) |-> 48] \o s

\* os.path.join(temp_dir, f"chunk_{i:03d}.mp3") as code points, from the
\* first character in which two chunk files of one call can differ: the
\* number, then the "." of the suffix (46).  The directory, "chunk_" and
\* "mp3" are the same in every name of one call and decide no comparison.
ChunkFileName(i) == ZeroPad(Digits(i), CHUNK_NUMBER_WIDTH) \o <<46>>

\* a < b on str: by code points, a proper prefix first
RECURSIVE StrLess(_, _)
StrLess(a, b) ==
    IF b = <<>> THEN FALSE
    ELSE IF a = <<>> THEN TRUE
    ELSE IF a[1] # b[1] THEN a[1] < b[1]
    ELSE StrLess(Tail(a), Tail(b))

\* temp_files.sort()
SortFiles(temp_files) == SortSeq(temp_files, StrLess)

\* a merge_audio_files that gives up when the pydub merge raises
MergeAudioFiles_no_fallback(audio_files, existing, quality, ioFails) ==
    LET there == SelectSeq(audio_files, LAMBDA f : f \in existing)
    IN  IF audio_files = <<>>
        THEN [ok |-> FALSE, mode |-> "none", merged |-> <<>>]
        ELSE IF Len(audio_files) = 1
        THEN IF ioFails \/ there = <<>>
             THEN [ok |-> FALSE, mode |-> "copy", merged |-> <<>>]
             ELSE [ok |-> TRUE, mode |-> "copy", merged |-> audio_files]
        ELSE IF quality = "raises" \/ ioFails
        THEN [ok |-> FALSE, mode |-> "raw", merged |-> <<>>]
        ELSE [ok |-> TRUE, mode |-> "raw", merged |-> there]

\* merge_audio_files.  existing: the files of audio_files that are there;
\* quality: "unavailable" without pydub or ffmpeg, "raises" when the pydub
\* merge raises, "ok"; ioFails: shutil.copy or the writing of output_file
\* raises.  merged is what output_file holds, file by file, "silence" for
\* AudioSegment.silent(duration=200).
MergeAudioFiles(audio_files, existing, quality, ioFails) ==
    LET there == SelectSeq(audio_files, LAMBDA f : f \in existing)
        RECURSIVE Combined(_)
        Combined(fs) ==
            IF fs = <<>> THEN <<>>
            ELSE <<Head(fs), "silence">> \o Combined(Tail(fs))
    IN  IF audio_files = <<>>
        THEN [ok |-> FALSE, mode |-> "none", merged |-> <<>>]
        ELSE IF Len(audio_files) = 1
        THEN IF ioFails \/ there = <<>>
             THEN [ok |-> FALSE, mode |-> "copy", merged |-> <<>>]
             ELSE [ok |-> TRUE, mode |-> "copy", merged |-> audio_files]
        ELSE IF quality = "ok"
        THEN [ok |-> TRUE, mode |-> "quality", merged |-> Combined(there)]
        ELSE IF ioFails
        THEN [ok |-> FALSE, mode |-> "raw", merged |-> <<>>]
        ELSE [ok |-> TRUE, mode |-> "raw", merged |-> there]

\* merge_audio_files as synthesize_long_text meets it: every chunk file is
\* there, and the merge is the simple one
merge_audio_files(audio_files, ioFails) ==
    LET m == MergeAudioFiles(audio_files,
                             {audio_files[k] : k \in 1..Len(audio_files)},
                             "unavailable", ioFails)
    IN  [ok |-> m.ok, merged |-> m.merged]

\* a synthesize_long_text that merges the chunks that were synthesized
\* whether or not some chunk failed
SynthesizeChunks_partial(text, chunks, fails, ioFails) ==
    LET numbers == [i \in 1..Len(chunks) |-> i]
        Ok(i) == synthesize_chunk(chunks[i], fails[i]).ok
        Failed(i) == ~Ok(i)
        done == SelectSeq(numbers, Ok)
        sorted == SortFiles([k \in 1..Len(done) |-> ChunkFileName(done[k])])
        m == merge_audio_files(sorted, ioFails)
    IN  [ok |-> m.ok,
         api_calls |-> [i \in 1..Len(chunks) |->
                           synthesize_chunk(chunks[i], fails[i]).api_calls],
         failed_chunks |-> SelectSeq(numbers, Failed),
         merge_called |-> TRUE, merge_input |-> sorted, merged |-> m.merged]

\* synthesize_long_text after chunks = smart_text_split(text); fails[i] is
\* the API's behaviour on chunk i
SynthesizeChunks(text, chunks, fails, ioFails) ==
    IF Len(chunks) = 1
    THEN LET r == synthesize_chunk(text, fails[1])
         IN  [ok |-> r.ok, api_calls |-> <<r.api_calls>>, failed_chunks |-> <<>>,
              merge_called |-> FALSE, merge_input |-> <<>>, merged |-> <<>>]
    ELSE LET numbers == [i \in 1..Len(chunks) |-> i]
             Ok(i) == synthesize_chunk(chunks[i], fails[i]).ok
             Failed(i) == ~Ok(i)
             done == SelectSeq(numbers, Ok)
             temp_files == [k \in 1..Len(done) |-> ChunkFileName(done[k])]
             failed_chunks == SelectSeq(numbers, Failed)
             api_calls == [i \in 1..Len(chunks) |->
                               synthesize_chunk(chunks[i], fails[i]).api_calls]
         IN  IF failed_chunks # <<>>
             THEN [ok |-> FALSE, api_calls |-> api_calls,
                   failed_chunks |-> failed_chunks,
                   merge_called |-> FALSE, merge_input |-> <<>>, merged |-> <<>>]
             ELSE LET sorted == SortFiles(temp_files)
                      m == merge_audio_files(sorted, ioFails)
                  IN  [ok |-> m.ok, api_calls |-> api_calls,
                       failed_chunks |-> failed_chunks,
                       merge_called |-> TRUE, merge_input |-> sorted,
                       merged |-> m.merged]

synthesize_long_text(text, fails, ioFails) ==
    SynthesizeChunks(text, smart_text_split(text), fails, ioFails)

\* the chunk files synthesize_long_text has written into temp_dir when it
\* gets to its finally clause, with temp_dir itself; nothing when the text
\* is one chunk, which is synthesized into output_file
ChunkTempFiles(chunks, r) ==
    IF Len(chunks) = 1 THEN {}
    ELSE {<<Run("temp_dir", 1)>>} \cup
         {ChunkFileName(i) : i \in {j \in 1..Len(chunks) :
                                      \A k \in 1..Len(r.failed_chunks) :
                                          r.failed_chunks[k] # j}}

\* a synthesize_long_text that removes temp_dir only after a merge
synthesize_long_text_finally_on_merge(chunks, r, rmtreeFails) ==
    IF rmtreeFails \/ ~r.merge_called THEN ChunkTempFiles(chunks, r) ELSE {}

\* the finally clause of synthesize_long_text: what is left of temp_dir
\* after shutil.rmtree(temp_dir), whose exception is caught and printed;
\* the clause runs whatever the result r is
synthesize_long_text_finally(chunks, r, rmtreeFails) ==
    IF rmtreeFails THEN ChunkTempFiles(chunks, r) ELSE {}

(***************************************************************************)
(* AudioCache.  A CacheEntry is a record; file_path is                     *)
(* FIXED_AUDIO_DIR/<file_id>.mp3, so the file of an entry exists when its  *)
(* file_id is in `files`.  A cache value c is [entries, files]: the index  *)
(* in memory and the audio files on disk.                                  *)
(***************************************************************************)
\* None, for a time and for a file_id
NoTime == -1
NoId == 0

\* hashlib.md5(f"{text}:{voice}".encode('utf-8')).hexdigest(): the digest is
\* taken to tell any two contents apart and is written as the content
AudioCache_generate_text_hash(text, voice) ==
    Cat(Cat(text, <<Run(":", 1)>>), voice)

\* text[:50] + "..." if len(text) > 50 else text
PREVIEW_LENGTH == 50

TextPreview(text) ==
    IF StrLen(text) > PREVIEW_LENGTH
    THEN Cat(StrTake(text, PREVIEW_LENGTH), <<Run(".", 3)>>)
    ELSE text

CacheEntry(file_id, text, voice, created_at) ==
    [file_id |-> file_id,
     text_hash |-> AudioCache_generate_text_hash(text, voice),
     voice |-> voice, created_at |-> created_at,
     text_preview |-> TextPreview(text),
     playback_count |-> 0, last_played |-> NoTime]

NoEntry == CacheEntry(NoId, EmptyStr, EmptyStr, NoTime)

EntryIds(es) == {es[k].file_id : k \in 1..Len(es)}

\* _remove_entry for every file_id in ids: del self.entries[file_id] and
\* os.remove(entry.file_path)
AudioCache_remove_entries(c, ids) ==
    LET Kept(e) == e.file_id \notin ids
    IN  [entries |-> SelectSeq(c.entries, Kept),
         files |-> c.files \ (ids \cap EntryIds(c.entries))]

\* a _cleanup_expired_entries that removes nothing
ExpiredIds_none(es, time) == {}

\* the file_ids _cleanup_expired_entries removes
ExpiredIds(es, time) ==
    {es[k].file_id : k \in {j \in 1..Len(es) :
                              es[j].created_at < time - CACHE_RETENTION_HOURS}}

AudioCache_cleanup_expired_entries(c, time) ==
    AudioCache_remove_entries(c, ExpiredIds(c.entries, time))

\* a _cleanup_excess_files that sorts the newest first
ExcessIds_newest_first(es) ==
    IF Len(es) > MAX_CACHE_FILES
    THEN LET excess_count == Len(es) - MAX_CACHE_FILES
             Before(j, k) == \/ es[j].created_at > es[k].created_at
                             \/ es[j].created_at = es[k].created_at /\ j < k
             Place(k) == Cardinality({j \in 1..Len(es) : Before(j, k)})
         IN  {es[k].file_id : k \in {j \in 1..Len(es) : Place(j) < excess_count}}
    ELSE {}

\* the file_ids _cleanup_excess_files removes: the first excess_count of the
\* entries sorted by created_at (list.sort is stable)
ExcessIds(es) ==
    IF Len(es) > MAX_CACHE_FILES
    THEN LET excess_count == Len(es) - MAX_CACHE_FILES
             Before(j, k) == \/ es[j].created_at < es[k].created_at
                             \/ es[j].created_at = es[k].created_at /\ j < k
             Place(k) == Cardinality({j \in 1..Len(es) : Before(j, k)})
         IN  {es[k].file_id : k \in {j \in 1..Len(es) : Place(j) < excess_count}}
    ELSE {}

AudioCache_cleanup_excess_files(c) ==
    AudioCache_remove_entries(c, ExcessIds(c.entries))

(***************************************************************************)
(* The index file.  Its content is a kind and the entry records that can   *)
(* be read from it: "json", the list json.dump wrote; "absent", no file;   *)
(* "truncated", the file as open(..., 'w') and an unfinished json.dump     *)
(* leave it; "unreadable", a file open() or the decoder raises on;         *)
(* "malformed", a JSON text whose records are followed by something that   *)
(* is not an entry record.                                                 *)
(***************************************************************************)
NoIndexFile == [kind |-> "absent", data |-> <<>>]

CorruptKinds == {"truncated", "unreadable", "malformed"}

\* datetime.isoformat() and datetime.fromisoformat()
IsoFormat(t) == <<"iso", t>>
FromIsoFormat(x) == x[2]

\* asdict(entry) with created_at and last_played as _save_cache_index
\* writes them
EntryData(entry) ==
    [entry EXCEPT !.created_at = IsoFormat(@),
                  !.last_played = IF @ = NoTime THEN <<"null">> ELSE IsoFormat(@)]

\* CacheEntry(...) as _load_cache_index builds it from a record
EntryFromData(entry_data) ==
    [entry_data EXCEPT
        !.created_at = FromIsoFormat(@),
        !.last_played = IF @ = <<"null">> THEN NoTime ELSE FromIsoFormat(@)]

\* _save_cache_index when nothing raises: the file after json.dump
AudioCache_save_cache_index(es) ==
    [kind |-> "json", data |-> [k \in 1..Len(es) |-> EntryData(es[k])]]

\* a _load_cache_index that keeps the entries read before the error
AudioCache_load_cache_index_partial(f) ==
    IF f.kind \in {"json", "malformed"}
    THEN [k \in 1..Len(f.data) |-> EntryFromData(f.data[k])]
    ELSE <<>>

\* _load_cache_index: self.entries after the load; every exception ends in
\* self.entries = {}
AudioCache_load_cache_index(f) ==
    IF f.kind = "json"
    THEN [k \in 1..Len(f.data) |-> EntryFromData(f.data[k])]
    ELSE <<>>

\* a find_cached_audio that does not look whether the audio file exists
AudioCache_find_cached_audio_any_file(c, time, text, voice) ==
    LET swept == AudioCache_cleanup_expired_entries(c, time)
        text_hash == AudioCache_generate_text_hash(text, voice)
        hits == {k \in 1..Len(swept.entries) :
                     swept.entries[k].text_hash = text_hash}
    IN  IF hits = {}
        THEN [cache |-> swept, found |-> FALSE,
              entry |-> NoEntry]
        ELSE [cache |-> swept, found |-> TRUE,
              entry |-> swept.entries[CHOOSE k \in hits : \A j \in hits : k <= j]]

\* find_cached_audio: the cache after the expiry sweep and the entry found
\* (found = FALSE: None)
AudioCache_find_cached_audio(c, time, text, voice) ==
    LET swept == AudioCache_cleanup_expired_entries(c, time)
        text_hash == AudioCache_generate_text_hash(text, voice)
        hits == {k \in 1..Len(swept.entries) :
                     /\ swept.entries[k].text_hash = text_hash
                     /\ swept.entries[k].file_id \in swept.files}
    IN  IF hits = {}
        THEN [cache |-> swept, found |-> FALSE,
              entry |-> NoEntry]
        ELSE [cache |-> swept, found |-> TRUE,
              entry |-> swept.entries[CHOOSE k \in hits : \A j \in hits : k <= j]]

\* an add_to_cache that returns the file_id without storing the entry
AudioCache_add_to_cache_unsaved(c, time, file_id, text, voice, copyFails) ==
    [cache |-> c, raised |-> copyFails, evicted |-> {}]

\* an add_to_cache that stores the entry without the voice
AudioCache_add_to_cache_no_voice(c, time, file_id, text, voice, copyFails) ==
    LET swept == AudioCache_cleanup_expired_entries(c, time)
        trimmed == AudioCache_cleanup_excess_files(swept)
        entry == CacheEntry(file_id, text, EmptyStr, time)
    IN  IF copyFails
        THEN [cache |-> trimmed, raised |-> TRUE,
              evicted |-> ExcessIds(swept.entries)]
        ELSE [cache |-> [entries |-> Append(trimmed.entries, entry),
                         files |-> trimmed.files \cup {file_id}],
              raised |-> FALSE,
              evicted |-> ExcessIds(swept.entries)]

\* an add_to_cache that copies the file and stores the entry first, and
\* sweeps afterwards
AudioCache_add_to_cache_append_first(c, time, file_id, text, voice, copyFails) ==
    LET entry == CacheEntry(file_id, text, voice, time)
        added == [entries |-> Append(c.entries, entry),
                  files |-> c.files \cup {file_id}]
        swept == AudioCache_cleanup_expired_entries(added, time)
        trimmed == AudioCache_cleanup_excess_files(swept)
    IN  IF copyFails
        THEN [cache |-> c, raised |-> TRUE, evicted |-> {}]
        ELSE [cache |-> trimmed, raised |-> FALSE,
              evicted |-> ExcessIds(swept.entries)]

\* add_to_cache: copyFails is the outcome of shutil.copy2, which raises out
\* of add_to_cache after the two sweeps have run
AudioCache_add_to_cache(c, time, file_id, text, voice, copyFails) ==
    LET swept == AudioCache_cleanup_expired_entries(c, time)
        trimmed == AudioCache_cleanup_excess_files(swept)
        entry == CacheEntry(file_id, text, voice, time)
    IN  IF copyFails
        THEN [cache |-> trimmed, raised |-> TRUE,
              evicted |-> ExcessIds(swept.entries)]
        ELSE [cache |-> [entries |-> Append(trimmed.entries, entry),
                         files |-> trimmed.files \cup {file_id}],
              raised |-> FALSE,
              evicted |-> ExcessIds(swept.entries)]

\* get_cached_file(file_id) is not None
AudioCache_get_cached_file(c, file_id) ==
    file_id \in EntryIds(c.entries) /\ file_id \in c.files

AudioCache_update_playback_stats(c, time, file_id) ==
    [c EXCEPT !.entries =
        [k \in 1..Len(c.entries) |->
            IF c.entries[k].file_id = file_id
            THEN [c.entries[k] EXCEPT !.playback_count = @ + 1,
                                      !.last_played = time]
            ELSE c.entries[k]]]

(***************************************************************************)
(* The playback controller.  A process is a number; a playback state ps is *)
(* [procs, info, audioProcess]: the player processes that run and the two  *)
(* globals.                                                                *)
(***************************************************************************)
NoProc == 0

\* _current_playback_info = None
NoInfo == [process |-> NoProc, original_file |-> NoId, current_file |-> NoId]

PlaybackInfo(filepath, final_file, process) ==
    [process |-> process, original_file |-> filepath, current_file |-> final_file]

\* How stopping a process goes: terminate() and the process exits in time;
\* the wait times out and kill() ends it; terminate() or a wait raises and
\* the kill() of the handler ends it; or that kill() or its wait raises too,
\* which is passed over, and the process goes on running.
StopOutcomes == {"terminated", "killed", "error_killed", "error_alive"}

\* the outcomes text_to_speech is run with when its playback replaces an
\* earlier one: the process exits, or it goes on running
ReplaceOutcomes == {"terminated", "error_alive"}

\* a stop_audio_playback that kills at once
StopSignals_kill_first(outcome) == <<"kill">>

\* what stop_audio_playback calls on a process that runs, in order:
\* process.terminate(), and process.kill() when the wait of 3 seconds
\* times out or when terminate() or a wait raises
StopSignals(outcome) ==
    IF outcome = "terminated" THEN <<"terminate">>
    ELSE <<"terminate", "kill">>

\* the process stop_audio_playback works on: that of _current_playback_info,
\* else the legacy _current_audio_process
StopTarget(ps) ==
    IF ps.info # NoInfo /\ ps.info.process # NoProc
    THEN {ps.info.process}
    ELSE IF ps.audioProcess # NoProc
         THEN {ps.audioProcess}
         ELSE {}

\* a stop_audio_playback that leaves the playback state as it is when
\* stopping the process raised
stop_audio_playback_keeps_state(ps, outcome) ==
    IF outcome \in {"error_killed", "error_alive"} /\ StopTarget(ps) \cap ps.procs # {}
    THEN [ps EXCEPT !.procs = IF outcome = "error_alive" THEN @
                              ELSE @ \ StopTarget(ps)]
    ELSE [procs |-> ps.procs \ StopTarget(ps), info |-> NoInfo,
          audioProcess |-> NoProc]

\* stop_audio_playback: a target that still runs (poll() is None) is
\* stopped as `outcome` says; the two globals are cleared in every case
stop_audio_playback(ps, outcome) ==
    [procs |-> IF outcome = "error_alive" THEN ps.procs
               ELSE ps.procs \ StopTarget(ps),
     info |-> NoInfo, audioProcess |-> NoProc]

\* get_audio_player() is not None
PlayerFound(sys) == sys \in {"darwin", "windows"}

\* play_audio_file_sync(filepath) with speed = volume = 1.0, run by the only
\* thread that plays: exists is os.path.exists(filepath), stopOutcome how
\* stopping the earlier playback goes, launchFails the
\* outcome of subprocess.Popen, staysAlive whether the player still runs
\* when the call returns (the synchronous player of macOS never does: the
\* call waits for it, and kills it after the timeout).
play_audio_file_sync(ps, sys, pid, filepath, exists, stopOutcome, launchFails, staysAlive) ==
    IF ~exists \/ ~PlayerFound(sys)
    THEN [ps |-> ps, ok |-> FALSE, launched |-> FALSE]
    ELSE LET stopped == stop_audio_playback(ps, stopOutcome)
         IN  IF launchFails
             THEN [ps |-> stopped, ok |-> FALSE, launched |-> FALSE]
             ELSE [ps |-> [procs |-> IF sys = "darwin" \/ ~staysAlive
                                     THEN stopped.procs
                                     ELSE stopped.procs \cup {pid},
                           info |-> PlaybackInfo(filepath, filepath, pid),
                           audioProcess |-> pid],
                   ok |-> TRUE, launched |-> TRUE]

(***************************************************************************)
(* check_system_dependencies.  The environment is the platform (system)    *)
(* and depEnv: whether edge-tts and pydub were imported, whether the       *)
(* player command answers (which afplay, powershell -c exit), whether the  *)
(* cache directory can be written, whether ffmpeg runs.  A result is       *)
(* [ready, errors, warnings], the errors and warnings by the capability    *)
(* they are about.                                                         *)
(***************************************************************************)
DEPENDENCY_CHECK_CACHE_HOURS == 24

Capabilities == {"edge_tts", "player", "cache_dir", "pydub", "ffmpeg"}

\* everything installed and writable
FullEnv == [c \in Capabilities |-> TRUE]

\* _dependency_check_result = None
NoDepResult == [ready |-> FALSE, errors |-> {"none"}, warnings |-> {}]

NoDepCheck == [result |-> NoDepResult, timestamp |-> 0, completed |-> FALSE]

NoDepCall == [called |-> FALSE, ran |-> FALSE, system |-> "", env |-> FullEnv,
              result |-> NoDepResult]

\* the checks 1 to 5 of check_system_dependencies
RunDependencyChecks(sys, env) ==
    LET platform_errors == IF sys \notin {"darwin", "windows"}
                           THEN {"platform"} ELSE {}
        library_errors == IF ~env["edge_tts"] THEN {"edge_tts"} ELSE {}
        \* if not errors: get_audio_player() and the test of its command
        player_errors == IF platform_errors \cup library_errors = {}
                            /\ ~env["player"]
                         THEN {"player"} ELSE {}
        cache_errors == IF ~env["cache_dir"] THEN {"cache_dir"} ELSE {}
        errors == platform_errors \cup library_errors \cup player_errors
                      \cup cache_errors
        warnings == IF ~env["pydub"] THEN {"pydub"}
                    ELSE IF ~env["ffmpeg"] THEN {"ffmpeg"}
                    ELSE {}
    IN  [ready |-> errors = {}, errors |-> errors, warnings |-> warnings]

\* check_system_dependencies(use_cache = True, force_refresh): the new
\* value of the three globals and the result returned
check_system_dependencies(check, time, sys, env, force_refresh) ==
    IF ~force_refresh /\ check.completed /\ check.result # NoDepResult
          /\ check.result.ready
    THEN [check |-> check, result |-> check.result, ran |-> FALSE]
    ELSE IF ~force_refresh /\ check.result # NoDepResult
               /\ time - check.timestamp < DEPENDENCY_CHECK_CACHE_HOURS
    THEN [check |-> check, result |-> check.result, ran |-> FALSE]
    ELSE LET result == RunDependencyChecks(sys, env)
         IN  [check |-> [result |-> result, timestamp |-> time,
                         completed |-> check.completed \/ result.ready],
              result |-> result, ran |-> TRUE]

\* a validate_dependencies that finds everything ready
validate_dependencies_passes(check, time, sys, env) ==
    [check |-> check, result |-> RunDependencyChecks("darwin", FullEnv),
     ran |-> FALSE]

\* validate_dependencies: check_system_dependencies(); the error message is
\* returned when result.ready is false
validate_dependencies(check, time, sys, env) ==
    check_system_dependencies(check, time, sys, env, FALSE)

(***************************************************************************)
(* Each specification below runs one part of the module and leaves the     *)
(* variables of the other parts as they are here.                          *)
(***************************************************************************)
SplitIdle ==
    /\ splitText = EmptyStr
    /\ splitDone = FALSE
    /\ splitChunks = <<>>

NoResult ==
    [ok |-> FALSE, api_calls |-> <<>>, failed_chunks |-> <<>>,
     merge_called |-> FALSE, merge_input |-> <<>>, merged |-> <<>>]

\* no call of merge_audio_files yet
NoMergeCall == [audio_files |-> <<>>, existing |-> {}, quality |-> "",
                ioFails |-> FALSE, done |-> FALSE, ok |-> FALSE, mode |-> "",
                merged |-> <<>>]

\* no call of synthesize_chunk yet
NoChunkCall == [text |-> EmptyStr, outcomes |-> <<>>, done |-> FALSE,
                ok |-> FALSE, api_calls |-> 0, attempts |-> 0,
                sleeps |-> <<>>, jitters |-> <<>>, delays |-> <<>>]

SynIdle ==
    /\ synText = EmptyStr
    /\ synChunks = <<>>
    /\ synDone = FALSE
    /\ synResult = NoResult
    /\ chunkCall = NoChunkCall

\* no call of text_to_speech yet
NoPrev == [called |-> FALSE, text |-> EmptyStr, voice |-> EmptyStr,
           synth_ok |-> FALSE, added |-> NoId]

NoCall ==
    [called |-> FALSE, text |-> EmptyStr, voice |-> EmptyStr,
     result |-> "", hit |-> FALSE, synth_called |-> FALSE,
     exhausted |-> FALSE, synth_ok |-> FALSE,
     added |-> NoId, played |-> NoId, play_called |-> FALSE,
     launched |-> FALSE, temp_made |-> {}, temp_left |-> {},
     remove_failed |-> {}, untouched |-> TRUE, failures |-> {},
     raised |-> FALSE,
     first_new_id |-> NoId, prev |-> NoPrev]

\* no save in progress, nothing saved or loaded
NoIndexOp == [saving |-> FALSE, committed |-> <<>>, loaded_kind |-> "absent",
              loaded_records |-> 0, loaded |-> <<>>, restarts |-> 0,
              stats_updates |-> 0]

\* no dependency check yet, in a complete environment
DepsIdle ==
    /\ depEnv = FullEnv
    /\ depCheck = NoDepCheck
    /\ depCall = NoDepCall

(***************************************************************************)
(* The Kubernetes MCP server: the safety switches of the package, main of  *)
(* server.py, and the tools the tool modules register.                     *)
(***************************************************************************)
\* the value of an environment variable: a word, in upper case or not, with
\* blanks around it or not; the word "" is the default of an unset variable
EnvValue(word, upper, padded) ==
    [word |-> word, upper |-> upper, padded |-> padded]

StrStripped(v) == [v EXCEPT !.padded = FALSE]

StrLowered(v) == [v EXCEPT !.upper = FALSE]

SwitchWords == {"1", "true", "yes", "on"}

\* os.getenv(name, "").strip().lower() in {"1", "true", "yes", "on"}
EnvSwitch(v) ==
    StrLowered(StrStripped(v)) \in {EnvValue(w, FALSE, FALSE) : w \in SwitchWords}

is_read_only(server) == server.READ_ONLY

is_disable_destructive(server) == server.DISABLE_DESTRUCTIVE

Toolsets == {"config", "core", "helm"}

ConfigTools == {"configuration_contexts_list", "configuration_view"}

ReadTools ==
    {"pods_list", "pods_list_in_namespace", "pods_get", "pods_log", "pods_top",
     "resources_list", "resources_get", "events_list", "namespaces_list",
     "nodes_top", "nodes_log", "nodes_stats_summary"}

CoreTools ==
    ReadTools \cup {"pods_exec", "resources_create_or_update", "resources_delete"}

HelmTools == {"helm_template_apply", "helm_template_uninstall"}

\* the tools whose module _load_toolsets imports; readonly and
\* disable_destructive choose nothing: the branch they guard is `pass`
LoadToolsets(selected, readonly, disable_destructive) ==
    (IF "config" \in selected THEN ConfigTools ELSE {}) \cup
    (IF "core" \in selected THEN CoreTools ELSE {}) \cup
    (IF "helm" \in selected THEN HelmTools ELSE {})

\* the package imported with nothing in the environment, main not yet run
NoServer ==
    [env_read_only |-> EnvValue("", FALSE, FALSE),
     env_disable_destructive |-> EnvValue("", FALSE, FALSE),
     argv |-> {}, toolsets |-> {},
     READ_ONLY |-> FALSE, DISABLE_DESTRUCTIVE |-> FALSE,
     started |-> FALSE, readonly |-> FALSE, disable_destructive |-> FALSE,
     tools |-> {}]

\* no tool call yet
NoK8sCall == [called |-> FALSE, tool |-> "", refused |-> FALSE,
              raised |-> FALSE, ops |-> <<>>]

\* one object created or patched: get decides which; failing: the write raises
CreateOrPatch(exists) == <<"get", IF exists THEN "patch" ELSE "create">>

\* the cluster calls of the documents docs (a sequence of `exists` flags)
\* treated in order by op, stopping after the document failAt, whose call raises
RECURSIVE DocOps(_, _, _, _)
DocOps(docs, i, failAt, delete) ==
    IF i > Len(docs) THEN <<>>
    ELSE (IF delete THEN <<"delete">> ELSE CreateOrPatch(docs[i])) \o
         (IF i = failAt THEN <<>> ELSE DocOps(docs, i + 1, failAt, delete))

Refusal(tool) == [NoK8sCall EXCEPT !.called = TRUE, !.tool = tool,
                                   !.refused = TRUE, !.raised = TRUE]

\* resources_create_or_update, resources_delete (one document) and
\* helm_template_apply, helm_template_uninstall (the rendered documents).
\* valid: the input parses or renders, and the client is there
WritingToolCall(server, tool, valid, docs, failAt) ==
    IF is_read_only(server) \/ is_disable_destructive(server)
    THEN Refusal(tool)
    ELSE IF ~valid
    THEN [NoK8sCall EXCEPT !.called = TRUE, !.tool = tool, !.raised = TRUE]
    ELSE [NoK8sCall EXCEPT !.called = TRUE, !.tool = tool,
             !.raised = failAt \in 1..Len(docs),
             !.ops = DocOps(docs, 1, failAt,
                            tool \in {"resources_delete",
                                      "helm_template_uninstall"})]

K8sIdle ==
    /\ k8s = NoServer
    /\ k8sCall = NoK8sCall

\* no call of play_audio_file_sync with effects yet, no temporary file
NoEffects == [pc |-> "idle", temp_file |-> NoId, final_file |-> NoId,
              process |-> NoProc, returned |-> "none", temps |-> {},
              created |-> 0, cleanups |-> {}, plays |-> {},
              unlinked_alive |-> {}]

EffectsIdle == fx = NoEffects

SideIdle ==
    /\ mergeCall = NoMergeCall
    /\ K8sIdle
    /\ EffectsIdle

AuxIdle ==
    /\ DepsIdle
    /\ SideIdle

IndexIdle ==
    /\ indexFile = NoIndexFile
    /\ indexOp = NoIndexOp

\* no call of the stop_audio tool yet
NoStop == [called |-> FALSE, playing |-> FALSE, outcome |-> "",
           cleared |-> FALSE, result |-> "", signals |-> <<>>,
           alive_after |-> FALSE]

Threads == 1..NumThreads

ThreadsIdle ==
    /\ stopCall = NoStop
    /\ pc = [t \in Threads |-> "idle"]
    /\ local = [t \in Threads |-> [process |-> NoProc, returned |-> "none"]]

\* no call of the cache yet
NoOp == [op |-> "", text |-> EmptyStr, voice |-> EmptyStr, time |-> NoTime,
         found |-> FALSE, entry |-> NoEntry, stale |-> FALSE, raised |-> FALSE,
         evicted_created |-> {}, missing |-> {}, kept |-> {},
         present |-> FALSE, total |-> 0, unexpired |-> 0,
         kept_unexpired |-> 0, size_after |-> 0, is_last |-> FALSE,
         persisted |-> FALSE]

CacheIdle ==
    /\ system = "darwin"
    /\ now = 0
    /\ entries = <<>>
    /\ files = {}
    /\ nextId = 1
    /\ procs = {}
    /\ nextPid = 1
    /\ info = NoInfo
    /\ audioProcess = NoProc
    /\ ncalls = 0
    /\ quiet = FALSE
    /\ last = NoCall
    /\ cacheOp = NoOp
    /\ ThreadsIdle
    /\ IndexIdle

mainVars == <<system, cacheVars, playVars, callVars, threadVars, stopCall, diskVars,
              auxVars>>

(***************************************************************************)
(* The texts the chunker is run on: every string of at most MaxRuns runs   *)
(* over a letter, a blank, a sentence ending and a comma, with run lengths *)
(* around the two thresholds of the chunker.                               *)
(***************************************************************************)
SplitAlphabet == {"a", " ", ".", ","}
SplitRunLens == {1, MIN_CHUNK_SIZE - 1, FIXED_CHUNK_SIZE - MIN_CHUNK_SIZE,
                 FIXED_CHUNK_SIZE}

IsStr(s) == \A k \in 1..(Len(s) - 1) : s[k].ch # s[k + 1].ch

SplitTexts ==
    UNION {{s \in [1..len -> [ch : SplitAlphabet, n : SplitRunLens]] : IsStr(s)}
           : len \in 0..MaxRuns}

SplitInit ==
    /\ splitText \in SplitTexts
    /\ splitDone = FALSE
    /\ splitChunks = <<>>
    /\ SynIdle
    /\ CacheIdle
    /\ AuxIdle

SplitCall ==
    /\ ~splitDone
    /\ splitDone' = TRUE
    /\ splitChunks' = smart_text_split(splitText)
    /\ UNCHANGED splitText
    /\ UNCHANGED <<synVars, mainVars>>

SplitNext == SplitCall

SpecSplit == SplitInit /\ [][SplitNext]_vars

(***************************************************************************)
(* synthesize_long_text on its own.  A text of n sentences of which no two *)
(* fit one chunk is split into its n sentences; the chunker is not run on  *)
(* the text of MaxChunks sentences, for which the chunks are written down. *)
(***************************************************************************)
SynSentence == <<Run("a", FIXED_CHUNK_SIZE \div 2), Run(".", 1)>>

SynSentences(n) == [i \in 1..n |-> SynSentence]

SynTextOf(n) == [k \in 1..(2 * n) |-> SynSentence[2 - (k % 2)]]

SynCounts == (1..SmallChunks) \cup {MaxChunks - 1, MaxChunks}

SynInit ==
    /\ \E n \in SynCounts :
          /\ synText = SynTextOf(n)
          /\ synChunks = IF n <= SmallChunks
                         THEN smart_text_split(SynTextOf(n))
                         ELSE SynSentences(n)
    /\ synDone = FALSE
    /\ synResult = NoResult
    /\ chunkCall = NoChunkCall
    /\ SplitIdle
    /\ CacheIdle
    /\ AuxIdle

\* The API's behaviour on the chunks of one call: it fails `fails` times on
\* chunk `at` (none: at = 0) and works at once on every other chunk.
FailsOn(n, at, fails) == [i \in 1..n |-> IF i = at THEN fails ELSE 0]

FailPlaces(n) == {0, 1, n} \cup {k \in {2} : k <= n}

SynCall ==
    /\ ~synDone
    /\ \E at \in FailPlaces(Len(synChunks)), fails \in 1..(MAX_RETRIES + 1),
          ioFails \in BOOLEAN :
          synResult' = SynthesizeChunks(synText, synChunks,
                           FailsOn(Len(synChunks), at, fails), ioFails)
    /\ synDone' = TRUE
    /\ UNCHANGED <<synText, synChunks, chunkCall>>
    /\ UNCHANGED <<splitVars, mainVars>>

SynNext == SynCall

SpecSynth == SynInit /\ [][SynNext]_vars

(***************************************************************************)
(* synthesize_chunk on its own.  What the API does on each attempt is an   *)
(* input: the call works and leaves the audio ("ok"), communicate.save     *)
(* raises, or it returns and the output file is missing or empty.          *)
(***************************************************************************)
Outcomes == {"ok", "raises", "missing", "empty"}

\* the empty text, a blank, "a", " a" and a sentence
ChunkTexts == {EmptyStr, <<Run(" ", 1)>>, <<Run("a", 1)>>,
               <<Run(" ", 1), Run("a", 1)>>, SynSentence}

\* the number of leading attempts that do not leave the audio
RECURSIVE LeadingFailures(_)
LeadingFailures(outcomes) ==
    IF outcomes = <<>> \/ outcomes[1] = "ok" THEN 0
    ELSE 1 + LeadingFailures(Tail(outcomes))

ChunkInit ==
    /\ \E text \in ChunkTexts, outcomes \in [1..(MAX_RETRIES + 1) -> Outcomes] :
          chunkCall = [NoChunkCall EXCEPT !.text = text, !.outcomes = outcomes]
    /\ synText = EmptyStr
    /\ synChunks = <<>>
    /\ synDone = FALSE
    /\ synResult = NoResult
    /\ SplitIdle
    /\ CacheIdle
    /\ AuxIdle

ChunkSynthesize ==
    /\ ~chunkCall.done
    /\ LET r == synthesize_chunk(chunkCall.text,
                                 LeadingFailures(chunkCall.outcomes))
       IN  \E jitters \in [1..Len(r.sleeps) -> 0..JitterSteps] :
              chunkCall' = [chunkCall EXCEPT
                               !.done = TRUE, !.ok = r.ok,
                               !.api_calls = r.api_calls,
                               !.attempts = r.attempts,
                               !.sleeps = r.sleeps,
                               !.jitters = jitters,
                               !.delays = [k \in 1..Len(r.sleeps) |->
                                              BackoffDelay(r.sleeps[k],
                                                           jitters[k])]]
    /\ UNCHANGED <<synText, synChunks, synDone, synResult>>
    /\ UNCHANGED <<splitVars, mainVars>>

ChunkNext == ChunkSynthesize

SpecChunk == ChunkInit /\ [][ChunkNext]_vars

(***************************************************************************)
(* The callers' texts and voices, the platforms, the clock and the index   *)
(* the cache is constructed from.                                          *)
(***************************************************************************)
Systems == {"darwin", "windows", "linux"}

\* text_to_speech is given "a" or a text of three chunks, and the voice "c";
\* the cache is given the voice "c" or "b:c"
Texts == {<<Run("a", 1)>>, SynTextOf(3)}

DefaultVoice == <<Run("c", 1)>>

OtherVoice == <<Run("b", 1), Run(":", 1), Run("c", 1)>>

\* the cache is given ("a", "b:c"), ("a:b", "c") or ("f", "c"), the text and
\* voice of the oldest entry of the loaded index
CacheKeys == {<<<<Run("a", 1)>>, OtherVoice>>,
              <<<<Run("a", 1), Run(":", 1), Run("b", 1)>>, DefaultVoice>>,
              <<<<Run("f", 1)>>, DefaultVoice>>}

KeyHashes ==
    {AudioCache_generate_text_hash(t, DefaultVoice) : t \in Texts}
        \cup {AudioCache_generate_text_hash(k[1], k[2]) : k \in CacheKeys}

\* The index loaded by AudioCache(): n entries left by earlier runs, for n
\* other texts ("f", "ff", ...), entry i created at hour i.
FillerText(i) == <<Run("f", i)>>

FillerEntry(i) == CacheEntry(i, FillerText(i), DefaultVoice, i)

InitCounts == {0, MAX_CACHE_FILES}

InitNow == MAX_CACHE_FILES

\* the clock moves by the retention window, or an hour more
TickSteps == {CACHE_RETENTION_HOURS, CACHE_RETENTION_HOURS + 1}

(***************************************************************************)
(* text_to_speech, called by one caller at a time.  `last` keeps what the  *)
(* last call was given, what it returned and what it did.                  *)
(***************************************************************************)
\* the previous call, for a call that follows it immediately
PrevOf(call, immediately) ==
    IF call.called /\ immediately
    THEN [called |-> TRUE, text |-> call.text, voice |-> call.voice,
          synth_ok |-> call.synth_ok, added |-> call.added]
    ELSE NoPrev

CreatedOf(es, ids) ==
    {es[k].created_at : k \in {j \in 1..Len(es) : es[j].file_id \in ids}}

\* the API fails every attempt on some chunk
Exhausted(n, at, fails) == at \in 1..n /\ fails > MAX_RETRIES

\* what a call leaves behind; saved: the call ran _save_cache_index after
\* its last change of the index
Return(c, saved, ps, id, pid, call) ==
    /\ entries' = c.entries
    /\ indexFile' = IF saved THEN AudioCache_save_cache_index(c.entries)
                    ELSE indexFile
    /\ files' = c.files
    /\ procs' = ps.procs
    /\ info' = ps.info
    /\ audioProcess' = ps.audioProcess
    /\ nextId' = id
    /\ nextPid' = pid
    /\ last' = [call EXCEPT !.untouched =
                    /\ c = [entries |-> entries, files |-> files]
                    /\ ~saved
                    /\ ps = [procs |-> procs, info |-> info,
                             audioProcess |-> audioProcess]
                    /\ id = nextId
                    /\ pid = nextPid]
    /\ quiet' = TRUE
    /\ ncalls' = ncalls + 1
    /\ UNCHANGED <<system, now, cacheOp, indexOp>>
    /\ UNCHANGED <<splitVars, synVars, sideVars, threadVars, stopCall>>

\* the outcomes of an operation of the file system that the code expects
\* to fail at times: faults = FALSE, the operation succeeds
Faults(faults) == IF faults THEN BOOLEAN ELSE {FALSE}

\* the failures of its collaborators that a call met
Failures(synthesis, merge, copy, save, launch) ==
    (IF synthesis THEN {"synthesis"} ELSE {})
        \cup (IF merge THEN {"merge"} ELSE {})
        \cup (IF copy THEN {"copy"} ELSE {})
        \cup (IF save THEN {"save"} ELSE {})
        \cup (IF launch THEN {"launch"} ELSE {})

\* the cache hit: update_playback_stats, then play_audio_file_sync;
\* saveFails: _save_cache_index fails to write, and prints
TextToSpeechHit(call, f, ps, faults) ==
    LET c1 == AudioCache_update_playback_stats(f.cache, now, f.entry.file_id)
    IN  \E stopOutcome \in ReplaceOutcomes, launchFails \in BOOLEAN,
           staysAlive \in (IF system = "darwin" THEN {FALSE} ELSE BOOLEAN),
           saveFails \in Faults(faults) :
           LET p == play_audio_file_sync(ps, system, nextPid, f.entry.file_id,
                        f.entry.file_id \in c1.files, stopOutcome, launchFails,
                        staysAlive)
           IN  Return(c1, ~saveFails, p.ps, nextId,
                      IF p.launched THEN nextPid + 1 ELSE nextPid,
                      [call EXCEPT
                          !.result = IF p.ok
                                     THEN "Playing cached audio"
                                     ELSE "Found cached audio but playback failed",
                          !.hit = TRUE,
                          !.played = f.entry.file_id,
                          !.play_called = TRUE,
                          !.launched = p.launched,
                          !.failures = Failures(FALSE, FALSE, FALSE, saveFails,
                                                launchFails)])

\* a text_to_speech whose add_to_cache is outside the try block: the
\* exception of shutil.copy2 leaves the tool
TextToSpeechGenerated_unguarded(call, c, ps, text, voice, faults) ==
    LET a == AudioCache_add_to_cache(c, now, nextId, text, voice, TRUE)
    IN  Return(a.cache, FALSE, ps, nextId + 1, nextPid,
               [call EXCEPT !.raised = TRUE,
                            !.failures = Failures(FALSE, FALSE, TRUE, FALSE,
                                                  FALSE)])

\* the cache miss after a successful synthesis: add_to_cache,
\* get_cached_file, play_audio_file_sync, update_playback_stats
TextToSpeechGenerated(call, c, ps, text, voice, faults) ==
    \E copyFails \in BOOLEAN :
       LET a == AudioCache_add_to_cache(c, now, nextId, text, voice, copyFails)
       IN  IF a.raised
           THEN Return(a.cache, FALSE, ps, nextId + 1, nextPid,
                       [call EXCEPT
                           !.result = "Error in Edge TTS conversion: exception",
                           !.failures = Failures(FALSE, FALSE, TRUE, FALSE,
                                                 FALSE)])
           ELSE \E stopOutcome \in ReplaceOutcomes, launchFails \in BOOLEAN,
                   staysAlive \in (IF system = "darwin" THEN {FALSE} ELSE BOOLEAN),
                   saveFails \in Faults(faults) :
                   LET cached == AudioCache_get_cached_file(a.cache, nextId)
                       \* final_path: the cached file, or temp_file.name, which exists
                       p == play_audio_file_sync(ps, system, nextPid, nextId,
                                                 TRUE, stopOutcome, launchFails,
                                                 staysAlive)
                       c2 == IF p.ok
                             THEN AudioCache_update_playback_stats(a.cache, now, nextId)
                             ELSE a.cache
                   IN  Return(c2, ~saveFails, p.ps, nextId + 1,
                              IF p.launched THEN nextPid + 1 ELSE nextPid,
                              [call EXCEPT
                                  !.result = IF p.ok
                                             THEN "Playing generated audio"
                                             ELSE "Audio generated but playback failed",
                                  !.added = nextId,
                                  !.played = IF cached THEN nextId ELSE NoId,
                                  !.play_called = TRUE,
                                  !.launched = p.launched,
                                  !.failures = Failures(FALSE, FALSE, FALSE,
                                                        saveFails, launchFails)])

\* the cache miss: synthesize_long_text into a temporary file
TextToSpeechMiss(call, c, ps, text, voice, faults) ==
    LET chunks == smart_text_split(text)
        n == Len(chunks)
    IN  \E at \in FailPlaces(n), fails \in {MAX_RETRIES, MAX_RETRIES + 1},
           ioFails \in BOOLEAN,
           rmtreeFails \in (IF n = 1 THEN {FALSE} ELSE Faults(faults)),
           unlinkFails \in Faults(faults) :
           LET r == synthesize_long_text(text, FailsOn(n, at, fails), ioFails)
               \* temp_file of text_to_speech, and os.unlink in its finally
               \* clause, whose exception is passed over
               temp_file == {<<Run("temp_file", 1)>>}
               synth == [call EXCEPT
                   !.synth_called = TRUE,
                   !.exhausted = Exhausted(n, at, fails),
                   !.synth_ok = r.ok,
                   !.temp_made = temp_file \cup ChunkTempFiles(chunks, r),
                   !.temp_left =
                       synthesize_long_text_finally(chunks, r, rmtreeFails)
                           \cup (IF unlinkFails THEN temp_file ELSE {}),
                   !.remove_failed =
                       (IF rmtreeFails THEN {"rmtree"} ELSE {})
                           \cup (IF unlinkFails THEN {"unlink"} ELSE {})]
           IN  IF r.ok
               THEN TextToSpeechGenerated(synth, c, ps, text, voice, faults)
               ELSE Return(c, FALSE, ps, nextId, nextPid,
                           [synth EXCEPT
                               !.result =
                                   "Error in Edge TTS conversion: Synthesis failed",
                               !.failures = Failures(~r.merge_called,
                                                     r.merge_called, FALSE,
                                                     FALSE, FALSE)])

\* the text_to_speech tool; faults: whether the removal of the temporary
\* files and the writing of the index file can fail
text_to_speech(faults) ==
    /\ \E text \in Texts, voice \in {DefaultVoice} :
          LET c0 == [entries |-> entries, files |-> files]
              ps0 == [procs |-> procs, info |-> info,
                      audioProcess |-> audioProcess]
              call == [NoCall EXCEPT !.called = TRUE, !.text = text,
                                     !.voice = voice,
                                     !.first_new_id = nextId,
                                     !.prev = PrevOf(last, quiet)]
              dep == validate_dependencies(depCheck, now, system, depEnv)
          IN  /\ depCheck' = dep.check
              /\ depCall' = [called |-> TRUE, ran |-> dep.ran,
                             system |-> system, env |-> depEnv,
                             result |-> dep.result]
              /\ UNCHANGED depEnv
              /\ IF ~dep.result.ready
                 THEN Return(c0, FALSE, ps0, nextId, nextPid,
                          [call EXCEPT !.result = "Dependency Check Failed"])
                 ELSE LET f == AudioCache_find_cached_audio(c0, now, text,
                                                            voice)
                      IN  IF f.found
                          THEN TextToSpeechHit(call, f, ps0, faults)
                          ELSE TextToSpeechMiss(call, f.cache, ps0, text,
                                                voice, faults)

\* the calls of the pipeline, in which the temporary files can be removed
\* and the index file written
TextToSpeech ==
    /\ ncalls < MaxCalls
    /\ text_to_speech(FALSE)

\* the stop_audio tool: stop_audio_playback() and the text it returns
StopAudio ==
    /\ \E outcome \in StopOutcomes :
          LET ps0 == [procs |-> procs, info |-> info,
                      audioProcess |-> audioProcess]
              playing == StopTarget(ps0) \cap procs # {}
              ps == stop_audio_playback(ps0, outcome)
          IN  /\ playing \/ outcome = "terminated"
              /\ procs' = ps.procs
              /\ info' = ps.info
              /\ audioProcess' = ps.audioProcess
              /\ stopCall' = [called |-> TRUE, playing |-> playing,
                              outcome |-> IF playing THEN outcome ELSE "",
                              cleared |-> ps.info = NoInfo
                                          /\ ps.audioProcess = NoProc,
                              result |-> "Audio playback stopped successfully",
                              signals |-> IF playing THEN StopSignals(outcome)
                                          ELSE <<>>,
                              alive_after |->
                                  StopTarget(ps0) \cap ps.procs # {}]
    /\ quiet' = FALSE
    /\ UNCHANGED <<system, cacheVars, nextPid, ncalls, last, cacheOp>>
    /\ UNCHANGED <<splitVars, synVars, auxVars, threadVars, diskVars>>

\* a player process ends by itself
ProcessExits ==
    /\ \E p \in procs : procs' = procs \ {p}
    /\ quiet' = FALSE
    /\ UNCHANGED <<system, cacheVars, nextPid, info, audioProcess, ncalls, last,
                   cacheOp>>
    /\ UNCHANGED <<splitVars, synVars, auxVars, threadVars, stopCall, diskVars>>

\* time passes
Tick ==
    /\ \E d \in TickSteps :
          /\ now + d <= MaxTime
          /\ now' = now + d
    /\ quiet' = FALSE
    /\ UNCHANGED <<system, entries, files, nextId, playVars, ncalls, last,
                   cacheOp>>
    /\ UNCHANGED <<splitVars, synVars, auxVars, threadVars, stopCall, diskVars>>

\* a cached audio file is deleted from outside
FileLost ==
    /\ \E k \in 1..Len(entries) :
          /\ entries[k].text_hash \in KeyHashes
          /\ entries[k].file_id \in files
          /\ files' = files \ {entries[k].file_id}
    /\ quiet' = FALSE
    /\ UNCHANGED <<system, now, entries, nextId, playVars, ncalls, last,
                   cacheOp>>
    /\ UNCHANGED <<splitVars, synVars, auxVars, threadVars, stopCall, diskVars>>

Init ==
    /\ system \in Systems
    /\ now = InitNow
    /\ entries = <<>>
    /\ files = {}
    /\ nextId = 1
    /\ procs = {}
    /\ nextPid = 1
    /\ info = NoInfo
    /\ audioProcess = NoProc
    /\ ncalls = 0
    /\ quiet = FALSE
    /\ last = NoCall
    /\ cacheOp = NoOp
    /\ ThreadsIdle
    /\ IndexIdle
    /\ SplitIdle
    /\ SynIdle
    /\ AuxIdle

Next ==
    \/ TextToSpeech
    \/ ProcessExits
    \/ Tick
    \/ FileLost

Spec == Init /\ [][Next]_vars

(***************************************************************************)
(* One call of text_to_speech and what it leaves behind, with every        *)
(* failure of its collaborators, on a cache that is empty or holds the     *)
(* entry of an earlier call whose audio file is there or lost.             *)
(***************************************************************************)
ToolCalls == 1

ToolCall ==
    /\ ncalls < ToolCalls
    /\ text_to_speech(TRUE)

\* the environments of a call: complete, or with one capability missing
ToolEnvs ==
    {FullEnv} \cup {[FullEnv EXCEPT ![c] = FALSE] :
                       c \in {"edge_tts", "player", "cache_dir"}}

\* the entry of the earlier call is within the retention window or not
ToolInit ==
    /\ system \in Systems
    /\ depEnv \in ToolEnvs
    /\ depCheck = NoDepCheck
    /\ depCall = NoDepCall
    /\ SideIdle
    /\ now = MaxTime
    /\ \E n \in 0..1, age \in {0, CACHE_RETENTION_HOURS + 1} :
          /\ entries = [i \in 1..n |->
                           CacheEntry(i, <<Run("a", 1)>>, DefaultVoice, now - age)]
          /\ files \in SUBSET (1..n)
          /\ nextId = n + 1
    /\ \E playing \in BOOLEAN :
          IF playing /\ system # "darwin"
          THEN /\ procs = {1}
               /\ info = PlaybackInfo(1, 1, 1)
               /\ audioProcess = 1
               /\ nextPid = 2
          ELSE /\ procs = {}
               /\ info = NoInfo
               /\ audioProcess = NoProc
               /\ nextPid = 1
    /\ ncalls = 0
    /\ quiet = FALSE
    /\ last = NoCall
    /\ cacheOp = NoOp
    /\ ThreadsIdle
    /\ indexFile = AudioCache_save_cache_index(entries)
    /\ indexOp = NoIndexOp
    /\ SplitIdle
    /\ SynIdle

ToolNext == ToolCall

SpecTool == ToolInit /\ [][ToolNext]_vars

(***************************************************************************)
(* The cache on its own: find_cached_audio and add_to_cache called on the  *)
(* index AudioCache() loaded, while time passes and files get lost.        *)
(***************************************************************************)
\* an entry of the index that find_cached_audio would return but for its age
StaleMatch(es, fs, time, text, voice) ==
    \E k \in 1..Len(es) :
       /\ es[k].text_hash = AudioCache_generate_text_hash(text, voice)
       /\ es[k].file_id \in fs
       /\ es[k].created_at < time - CACHE_RETENTION_HOURS

\* the file_ids of the entries that are not expired at time
UnexpiredIds(es, time) ==
    {es[k].file_id : k \in {j \in 1..Len(es) :
                              es[j].created_at >= time - CACHE_RETENTION_HOURS}}

\* the entries of the key whose audio file does not exist
MissingMatches(es, fs, text, voice) ==
    {es[k] : k \in {j \in 1..Len(es) :
                       /\ es[j].text_hash =
                              AudioCache_generate_text_hash(text, voice)
                       /\ es[j].file_id \notin fs}}

\* an entry of the key that is not expired and whose audio file exists
PresentMatch(es, fs, time, text, voice) ==
    \E k \in 1..Len(es) :
       /\ es[k].text_hash = AudioCache_generate_text_hash(text, voice)
       /\ es[k].file_id \in fs
       /\ es[k].created_at >= time - CACHE_RETENTION_HOURS

CacheFind ==
    /\ \E key \in CacheKeys :
          LET text == key[1]
              voice == key[2]
              f == AudioCache_find_cached_audio(
                       [entries |-> entries, files |-> files], now, text, voice)
          IN  /\ entries' = f.cache.entries
              /\ files' = f.cache.files
              /\ cacheOp' = [NoOp EXCEPT
                                !.op = "find", !.text = text, !.voice = voice,
                                !.time = now, !.found = f.found,
                                !.entry = f.entry,
                                !.stale = StaleMatch(entries, files, now,
                                                     text, voice),
                                !.missing = MissingMatches(entries, files,
                                                           text, voice),
                                !.kept = MissingMatches(f.cache.entries,
                                                        f.cache.files,
                                                        text, voice),
                                !.present = PresentMatch(entries, files, now,
                                                         text, voice)]
    /\ UNCHANGED <<system, now, nextId, playVars, ncalls, quiet, last>>
    /\ UNCHANGED <<splitVars, synVars, auxVars, threadVars, stopCall, diskVars>>

CacheAdd ==
    /\ ncalls < MaxCalls
    /\ \E key \in CacheKeys, copyFails \in BOOLEAN :
          LET text == key[1]
              voice == key[2]
              a == AudioCache_add_to_cache(
                       [entries |-> entries, files |-> files], now, nextId,
                       text, voice, copyFails)
          IN  /\ entries' = a.cache.entries
              /\ files' = a.cache.files
              /\ indexFile' = IF a.raised THEN indexFile
                              ELSE AudioCache_save_cache_index(a.cache.entries)
              /\ cacheOp' = [NoOp EXCEPT
                                !.op = "add", !.text = text, !.voice = voice,
                                !.time = now, !.raised = a.raised,
                                !.entry = IF a.raised THEN NoEntry
                                          ELSE CacheEntry(nextId, text, voice, now),
                                !.evicted_created =
                                    CreatedOf(entries, a.evicted),
                                !.total = Len(entries),
                                !.unexpired =
                                    Cardinality(UnexpiredIds(entries, now)),
                                !.kept_unexpired =
                                    Cardinality(UnexpiredIds(entries, now)
                                        \cap EntryIds(a.cache.entries)),
                                !.size_after = Len(a.cache.entries),
                                !.is_last =
                                    /\ a.cache.entries # <<>>
                                    /\ a.cache.entries[Len(a.cache.entries)]
                                           = CacheEntry(nextId, text, voice, now)
                                    /\ nextId \in a.cache.files,
                                !.persisted =
                                    /\ indexFile' = AudioCache_save_cache_index(
                                                        a.cache.entries)
                                    /\ nextId \in EntryIds(a.cache.entries)]
    /\ nextId' = nextId + 1
    /\ ncalls' = ncalls + 1
    /\ UNCHANGED <<system, now, playVars, quiet, last, indexOp>>
    /\ UNCHANGED <<splitVars, synVars, auxVars, threadVars, stopCall>>

CacheInit ==
    /\ system = "darwin"
    /\ now = InitNow
    /\ \E n \in InitCounts :
          /\ entries = [i \in 1..n |-> FillerEntry(i)]
          /\ files = 1..n
          /\ nextId = n + 1
    /\ procs = {}
    /\ nextPid = 1
    /\ info = NoInfo
    /\ audioProcess = NoProc
    /\ ncalls = 0
    /\ quiet = FALSE
    /\ last = NoCall
    /\ cacheOp = NoOp
    /\ ThreadsIdle
    /\ indexFile = AudioCache_save_cache_index(entries)
    /\ indexOp = NoIndexOp
    /\ SplitIdle
    /\ SynIdle
    /\ AuxIdle

CacheNext ==
    \/ CacheFind
    \/ CacheAdd
    \/ Tick
    \/ FileLost

SpecCache == CacheInit /\ [][CacheNext]_vars

(***************************************************************************)
(* The index file over the life of the process.  _save_cache_index opens   *)
(* the index file for writing, which empties it, and json.dump then writes *)
(* the list; the process can die at any point and be started again, and    *)
(* AudioCache() then loads what the file holds.                            *)
(***************************************************************************)
\* the index files the process is started on: none, and for each kind a
\* file with the records of up to two entries
InitRecordCounts == 0..2

IndexFiles ==
    {NoIndexFile} \cup
    {[kind |-> k, data |-> [i \in 1..n |-> EntryData(FillerEntry(i))]] :
        k \in {"json"} \cup CorruptKinds, n \in InitRecordCounts}

AudioFilesOf(f) == {f.data[k].file_id : k \in 1..Len(f.data)}

\* AudioCache(): _load_cache_index
Loaded(f, restarts) ==
    [saving |-> FALSE,
     committed |-> AudioCache_load_cache_index(f),
     loaded_kind |-> f.kind,
     loaded_records |-> Len(f.data),
     loaded |-> AudioCache_load_cache_index(f),
     restarts |-> restarts,
     stats_updates |-> 0]

IndexUnchanged ==
    /\ UNCHANGED <<system, now, playVars, quiet, last>>
    /\ UNCHANGED <<splitVars, synVars, auxVars, threadVars, stopCall>>

\* add_to_cache up to the open(self.cache_file, 'w') of _save_cache_index:
\* copyFails, shutil.copy2 raises; openFails, open raises, which
\* _save_cache_index catches, and the file is as it was
IndexAdd ==
    /\ ~indexOp.saving
    /\ ncalls < MaxCalls
    /\ \E key \in CacheKeys, copyFails \in BOOLEAN, openFails \in BOOLEAN :
          LET a == AudioCache_add_to_cache(
                       [entries |-> entries, files |-> files], now, nextId,
                       key[1], key[2], copyFails)
              opened == ~a.raised /\ ~openFails
          IN  /\ entries' = a.cache.entries
              /\ files' = a.cache.files
              /\ indexFile' = IF opened
                              THEN [kind |-> "truncated", data |-> <<>>]
                              ELSE indexFile
              /\ indexOp' = [indexOp EXCEPT !.saving = opened]
              /\ cacheOp' = [NoOp EXCEPT
                                !.op = "add", !.text = key[1], !.voice = key[2],
                                !.time = now, !.raised = a.raised,
                                !.entry = IF a.raised THEN NoEntry
                                          ELSE CacheEntry(nextId, key[1], key[2],
                                                          now)]
    /\ nextId' = nextId + 1
    /\ ncalls' = ncalls + 1
    /\ IndexUnchanged

\* json.dump(data, f) and the end of the with block: the save is complete
IndexDump ==
    /\ indexOp.saving
    /\ indexFile' = AudioCache_save_cache_index(entries)
    /\ indexOp' = [indexOp EXCEPT !.saving = FALSE, !.committed = entries]
    /\ UNCHANGED <<entries, files, nextId, ncalls, cacheOp>>
    /\ IndexUnchanged

\* find_cached_audio
IndexFind ==
    /\ ~indexOp.saving
    /\ \E key \in CacheKeys :
          LET f == AudioCache_find_cached_audio(
                       [entries |-> entries, files |-> files], now,
                       key[1], key[2])
          IN  /\ entries' = f.cache.entries
              /\ files' = f.cache.files
              /\ cacheOp' = [NoOp EXCEPT
                                !.op = "find", !.text = key[1],
                                !.voice = key[2], !.time = now,
                                !.found = f.found, !.entry = f.entry]
    /\ UNCHANGED <<nextId, ncalls, diskVars>>
    /\ IndexUnchanged

\* the process dies and is started again: AudioCache() loads the file
IndexCrash ==
    /\ indexOp.restarts < MaxCalls
    /\ entries' = AudioCache_load_cache_index(indexFile)
    /\ indexOp' = [Loaded(indexFile, indexOp.restarts + 1)
                      EXCEPT !.committed = indexOp.committed]
    /\ cacheOp' = NoOp
    /\ UNCHANGED <<files, nextId, ncalls, indexFile>>
    /\ IndexUnchanged

IndexInit ==
    /\ system = "darwin"
    /\ now = InitNow
    /\ indexFile \in IndexFiles
    /\ entries = AudioCache_load_cache_index(indexFile)
    /\ files = AudioFilesOf(indexFile)
    /\ nextId = Cardinality(InitRecordCounts)
    /\ indexOp = Loaded(indexFile, 0)
    /\ procs = {}
    /\ nextPid = 1
    /\ info = NoInfo
    /\ audioProcess = NoProc
    /\ ncalls = 0
    /\ quiet = FALSE
    /\ last = NoCall
    /\ cacheOp = NoOp
    /\ stopCall = NoStop
    /\ pc = [t \in Threads |-> "idle"]
    /\ local = [t \in Threads |-> [process |-> NoProc, returned |-> "none"]]
    /\ SplitIdle
    /\ SynIdle
    /\ AuxIdle

IndexNext ==
    \/ IndexAdd
    \/ IndexDump
    \/ IndexFind
    \/ IndexCrash

SpecIndex == IndexInit /\ [][IndexNext]_vars

(***************************************************************************)
(* merge_audio_files on its own: a list of up to MaxMergeFiles files, some *)
(* of which are not there, with and without the quality merge.             *)
(***************************************************************************)
MaxMergeFiles == 3

MergeFileNames == {ChunkFileName(i) : i \in 1..MaxMergeFiles}

RECURSIVE SeqsUpTo(_, _)
SeqsUpTo(S, n) ==
    IF n = 0 THEN {<<>>}
    ELSE SeqsUpTo(S, n - 1) \cup
         {Append(q, x) : q \in {r \in SeqsUpTo(S, n - 1) : Len(r) = n - 1},
                         x \in S}

MergeInit ==
    /\ \E audio_files \in SeqsUpTo(MergeFileNames, MaxMergeFiles),
          existing \in SUBSET MergeFileNames,
          quality \in {"unavailable", "raises", "ok"},
          ioFails \in BOOLEAN :
          mergeCall = [NoMergeCall EXCEPT !.audio_files = audio_files,
                                          !.existing = existing,
                                          !.quality = quality,
                                          !.ioFails = ioFails]
    /\ K8sIdle
    /\ EffectsIdle
    /\ DepsIdle
    /\ SplitIdle
    /\ SynIdle
    /\ CacheIdle

MergeCall ==
    /\ ~mergeCall.done
    /\ LET m == MergeAudioFiles(mergeCall.audio_files, mergeCall.existing,
                                mergeCall.quality, mergeCall.ioFails)
       IN  mergeCall' = [mergeCall EXCEPT !.done = TRUE, !.ok = m.ok,
                                          !.mode = m.mode,
                                          !.merged = m.merged]
    /\ UNCHANGED <<splitVars, synVars, depVars, k8sVars, fx>>
    /\ UNCHANGED <<system, cacheVars, playVars, callVars, threadVars, stopCall,
                   diskVars>>

MergeNext == MergeCall

SpecMerge == MergeInit /\ [][MergeNext]_vars

(***************************************************************************)
(* The Kubernetes MCP server started with any of the switches in its       *)
(* environment and on its command line, and its tools called.              *)
(***************************************************************************)
MaxDocs == 2

EnvValues ==
    {EnvValue("", FALSE, FALSE), EnvValue("true", TRUE, TRUE),
     EnvValue("on", FALSE, FALSE), EnvValue("0", FALSE, FALSE)}

Flags == {"--read-only", "--disable-destructive"}

WritingTools ==
    {"resources_create_or_update", "resources_delete", "helm_template_apply",
     "helm_template_uninstall"}

\* the documents a writing tool treats: one object for the resources tools,
\* what the template renders for the helm tools; TRUE: the object exists
DocsOf(tool) ==
    IF tool \in HelmTools
    THEN SeqsUpTo(BOOLEAN, MaxDocs)
    ELSE {q \in SeqsUpTo(BOOLEAN, 1) : Len(q) = 1}

K8sUnchanged ==
    /\ UNCHANGED <<splitVars, synVars, depVars, mergeCall, fx>>
    /\ UNCHANGED <<system, cacheVars, playVars, callVars, threadVars, stopCall,
                   diskVars>>

\* the package is imported (the switches are read from the environment
\* then), main has not run
K8sInit ==
    /\ \E r \in EnvValues, d \in EnvValues, argv \in SUBSET Flags,
          toolsets \in SUBSET Toolsets :
          k8s = [NoServer EXCEPT !.env_read_only = r,
                                 !.env_disable_destructive = d,
                                 !.argv = argv, !.toolsets = toolsets,
                                 !.READ_ONLY = EnvSwitch(r),
                                 !.DISABLE_DESTRUCTIVE = EnvSwitch(d)]
    /\ k8sCall = NoK8sCall
    /\ mergeCall = NoMergeCall
    /\ EffectsIdle
    /\ DepsIdle
    /\ SplitIdle
    /\ SynIdle
    /\ CacheIdle

main ==
    /\ ~k8s.started
    /\ LET readonly == "--read-only" \in k8s.argv \/ is_read_only(k8s)
           disable_destructive ==
               "--disable-destructive" \in k8s.argv \/ is_disable_destructive(k8s)
       IN  k8s' = [k8s EXCEPT !.started = TRUE, !.readonly = readonly,
                              !.disable_destructive = disable_destructive,
                              !.tools = LoadToolsets(k8s.toolsets, readonly,
                                                     disable_destructive)]
    /\ UNCHANGED k8sCall
    /\ K8sUnchanged

\* a client calls one of the four writing tools
K8sWrite ==
    /\ k8s.started
    /\ \E tool \in k8s.tools \cap WritingTools, valid \in BOOLEAN :
          \E docs \in DocsOf(tool) :
             \E failAt \in 0..Len(docs) :
                k8sCall' = WritingToolCall(k8s, tool, valid, docs, failAt)
    /\ UNCHANGED k8s
    /\ K8sUnchanged

\* a client calls one of the other tools: the config tools read the
\* kubeconfig file only, pods_exec runs a command in a container, the
\* others list or read on the cluster
K8sRead ==
    /\ k8s.started
    /\ \E tool \in k8s.tools \ WritingTools, fails \in BOOLEAN :
          k8sCall' = [NoK8sCall EXCEPT
                         !.called = TRUE, !.tool = tool,
                         !.raised = fails /\ tool \notin ConfigTools,
                         !.ops = IF tool \in ConfigTools THEN <<>>
                                 ELSE IF tool = "pods_exec" THEN <<"exec">>
                                 ELSE <<"read">>]
    /\ UNCHANGED k8s
    /\ K8sUnchanged

K8sNext ==
    \/ main
    \/ K8sWrite
    \/ K8sRead

SpecK8s == K8sInit /\ [][K8sNext]_vars

(***************************************************************************)
(* check_system_dependencies called again and again while time passes and  *)
(* the environment changes.                                                *)
(***************************************************************************)
DepsUnchanged ==
    /\ UNCHANGED <<sideVars, entries, files, nextId, playVars, quiet,
                   last, cacheOp, threadVars, stopCall, diskVars>>
    /\ UNCHANGED <<splitVars, synVars>>

DepsCheck ==
    /\ ncalls < MaxCalls
    /\ \E force_refresh \in BOOLEAN :
          LET r == check_system_dependencies(depCheck, now, system, depEnv,
                                             force_refresh)
          IN  /\ depCheck' = r.check
              /\ depCall' = [called |-> TRUE, ran |-> r.ran, system |-> system,
                             env |-> depEnv, result |-> r.result]
    /\ ncalls' = ncalls + 1
    /\ UNCHANGED <<system, now, depEnv>>
    /\ DepsUnchanged

\* the player command or the cache directory comes or goes; what was
\* imported when the module was loaded stays
DepsEnvChanges ==
    /\ \E c \in {"player", "cache_dir"} : depEnv' = [depEnv EXCEPT ![c] = ~@]
    /\ UNCHANGED <<system, now, ncalls, depCheck, depCall>>
    /\ DepsUnchanged

\* time passes: half of the time the result of a check is kept, or all of it
DepsTick ==
    /\ \E d \in {DEPENDENCY_CHECK_CACHE_HOURS \div 2,
                 DEPENDENCY_CHECK_CACHE_HOURS} :
          /\ now + d <= InitNow + DEPENDENCY_CHECK_CACHE_HOURS
          /\ now' = now + d
    /\ UNCHANGED <<system, ncalls, depEnv, depCheck, depCall>>
    /\ DepsUnchanged

DepsInit ==
    /\ system \in Systems
    /\ depEnv \in [Capabilities -> BOOLEAN]
    /\ depCheck = NoDepCheck
    /\ depCall = NoDepCall
    /\ SideIdle
    /\ now = InitNow
    /\ entries = <<>>
    /\ files = {}
    /\ nextId = 1
    /\ procs = {}
    /\ nextPid = 1
    /\ info = NoInfo
    /\ audioProcess = NoProc
    /\ ncalls = 0
    /\ quiet = FALSE
    /\ last = NoCall
    /\ cacheOp = NoOp
    /\ ThreadsIdle
    /\ IndexIdle
    /\ SplitIdle
    /\ SynIdle

DepsNext ==
    \/ DepsCheck
    \/ DepsEnvChanges
    \/ DepsTick

SpecDeps == DepsInit /\ [][DepsNext]_vars

(***************************************************************************)
(* The cache used by several text_to_speech calls at once.  AudioCache has *)
(* no lock: a thread can be preempted between the read and the write of    *)
(* playback_count += 1, and between building the list _save_cache_index    *)
(* writes and writing it.                                                  *)
(***************************************************************************)
\* what a thread holds between its steps: the entry or the key it works on,
\* the playback_count it read, the list it built for json.dump
NoWork == [file_id |-> NoId, text |-> EmptyStr, voice |-> EmptyStr,
           count |-> 0, data |-> <<>>]

RaceUnchanged ==
    /\ UNCHANGED <<system, now, playVars, quiet, last, cacheOp, stopCall>>
    /\ UNCHANGED <<splitVars, synVars, auxVars>>

\* text_to_speech: find_cached_audio; a hit goes on to
\* update_playback_stats, a miss (after the synthesis) to add_to_cache
RaceFind(t) ==
    /\ pc[t] = "idle"
    /\ ncalls < MaxCalls
    /\ \E key \in CacheKeys :
          LET f == AudioCache_find_cached_audio(
                       [entries |-> entries, files |-> files], now,
                       key[1], key[2])
          IN  /\ entries' = f.cache.entries
              /\ files' = f.cache.files
              /\ pc' = [pc EXCEPT ![t] = IF f.found THEN "stats_read" ELSE "add"]
              /\ local' = [local EXCEPT ![t] =
                              [NoWork EXCEPT !.file_id = f.entry.file_id,
                                             !.text = key[1],
                                             !.voice = key[2]]]
    /\ ncalls' = ncalls + 1
    /\ UNCHANGED <<nextId, diskVars>>
    /\ RaceUnchanged

\* update_playback_stats: the read of self.entries[file_id].playback_count
RaceStatsRead(t) ==
    /\ pc[t] = "stats_read"
    /\ IF local[t].file_id \in EntryIds(entries)
       THEN /\ pc' = [pc EXCEPT ![t] = "stats_write"]
            /\ local' = [local EXCEPT ![t].count =
                            (CHOOSE e \in {entries[k] : k \in 1..Len(entries)} :
                                e.file_id = local[t].file_id).playback_count]
       ELSE /\ pc' = [pc EXCEPT ![t] = "idle"]
            /\ local' = [local EXCEPT ![t] = NoWork]
    /\ UNCHANGED <<cacheVars, ncalls, diskVars>>
    /\ RaceUnchanged

\* update_playback_stats: the write of playback_count, and last_played
RaceStatsWrite(t) ==
    /\ pc[t] = "stats_write"
    /\ entries' = [k \in 1..Len(entries) |->
                      IF entries[k].file_id = local[t].file_id
                      THEN [entries[k] EXCEPT
                               !.playback_count = local[t].count + 1,
                               !.last_played = now]
                      ELSE entries[k]]
    /\ indexOp' = [indexOp EXCEPT !.stats_updates = @ + 1]
    /\ pc' = [pc EXCEPT ![t] = "save_build"]
    /\ UNCHANGED <<now, files, nextId, ncalls, indexFile, local>>
    /\ RaceUnchanged

\* add_to_cache up to self.entries[file_id] = entry
RaceAdd(t) ==
    /\ pc[t] = "add"
    /\ \E copyFails \in BOOLEAN :
          LET a == AudioCache_add_to_cache(
                       [entries |-> entries, files |-> files], now, nextId,
                       local[t].text, local[t].voice, copyFails)
          IN  /\ entries' = a.cache.entries
              /\ files' = a.cache.files
              /\ indexOp' = IF a.raised THEN indexOp
                            ELSE [indexOp EXCEPT !.committed =
                                     Append(@, CacheEntry(nextId, local[t].text,
                                                          local[t].voice, now))]
              /\ pc' = [pc EXCEPT ![t] = IF a.raised THEN "idle"
                                         ELSE "save_build"]
              /\ local' = [local EXCEPT ![t] =
                              IF a.raised THEN NoWork
                              ELSE [@ EXCEPT !.file_id = nextId]]
    /\ nextId' = nextId + 1
    /\ UNCHANGED <<now, ncalls, indexFile>>
    /\ RaceUnchanged

\* _save_cache_index: the loop that builds data from self.entries
RaceSaveBuild(t) ==
    /\ pc[t] = "save_build"
    /\ local' = [local EXCEPT ![t].data =
                    AudioCache_save_cache_index(entries).data]
    /\ pc' = [pc EXCEPT ![t] = "save_write"]
    /\ UNCHANGED <<cacheVars, ncalls, diskVars>>
    /\ RaceUnchanged

\* _save_cache_index: open and json.dump(data, f)
RaceSaveWrite(t) ==
    /\ pc[t] = "save_write"
    /\ indexFile' = [kind |-> "json", data |-> local[t].data]
    /\ pc' = [pc EXCEPT ![t] = "idle"]
    /\ local' = [local EXCEPT ![t] = NoWork]
    /\ UNCHANGED <<cacheVars, ncalls, indexOp>>
    /\ RaceUnchanged

\* the index holds one entry, of ("f", "c"), played never
RaceInit ==
    /\ system = "darwin"
    /\ now = InitNow
    /\ entries = <<FillerEntry(1)>>
    /\ files = {1}
    /\ nextId = 2
    /\ indexFile = AudioCache_save_cache_index(entries)
    /\ indexOp = NoIndexOp
    /\ procs = {}
    /\ nextPid = 1
    /\ info = NoInfo
    /\ audioProcess = NoProc
    /\ ncalls = 0
    /\ quiet = FALSE
    /\ last = NoCall
    /\ cacheOp = NoOp
    /\ stopCall = NoStop
    /\ pc = [t \in Threads |-> "idle"]
    /\ local = [t \in Threads |-> NoWork]
    /\ SplitIdle
    /\ SynIdle
    /\ AuxIdle

RaceNext ==
    \/ \E t \in Threads : RaceFind(t)
    \/ \E t \in Threads : RaceStatsRead(t)
    \/ \E t \in Threads : RaceStatsWrite(t)
    \/ \E t \in Threads : RaceAdd(t)
    \/ \E t \in Threads : RaceSaveBuild(t)
    \/ \E t \in Threads : RaceSaveWrite(t)

SpecRace == RaceInit /\ [][RaceNext]_vars

(***************************************************************************)
(* play_audio_file_sync and stop_audio_playback called from several        *)
(* threads.  _playback_control_lock is held for the whole body of          *)
(* stop_audio_playback and for the two assignments that record a playback, *)
(* so each of these is one step; subprocess.Popen is called with the lock  *)
(* not held.                                                               *)
(***************************************************************************)
Globals == [procs |-> procs, info |-> info, audioProcess |-> audioProcess]

SetGlobals(ps) ==
    /\ procs' = ps.procs
    /\ info' = ps.info
    /\ audioProcess' = ps.audioProcess

PlayUnchanged ==
    /\ UNCHANGED <<system, cacheVars, callVars, stopCall, diskVars>>
    /\ UNCHANGED <<splitVars, synVars, auxVars>>

\* the call starts: os.path.exists(filepath) and get_audio_player()
PlayBegin(t) ==
    /\ pc[t] = "idle"
    /\ \E exists \in BOOLEAN :
          IF ~exists \/ ~PlayerFound(system)
          THEN /\ local' = [local EXCEPT ![t] = [process |-> NoProc,
                                                 returned |-> "False"]]
               /\ UNCHANGED pc
          ELSE /\ pc' = [pc EXCEPT ![t] = "stop"]
               /\ local' = [local EXCEPT ![t] = [process |-> NoProc,
                                                 returned |-> "none"]]
    /\ UNCHANGED playVars
    /\ PlayUnchanged

\* a play_audio_file_sync that does not stop the earlier playback
PlayStop_skipped(t) ==
    /\ pc[t] = "stop"
    /\ pc' = [pc EXCEPT ![t] = "launch"]
    /\ UNCHANGED <<playVars, local>>
    /\ PlayUnchanged

\* stop_audio_playback()
PlayStop(t) ==
    /\ pc[t] = "stop"
    /\ \E outcome \in StopOutcomes : SetGlobals(stop_audio_playback(Globals, outcome))
    /\ pc' = [pc EXCEPT ![t] = "launch"]
    /\ UNCHANGED <<nextPid, local>>
    /\ PlayUnchanged

\* process = subprocess.Popen(cmd, ...)
PlayLaunch(t) ==
    /\ pc[t] = "launch"
    /\ \E launchFails \in BOOLEAN :
          IF launchFails
          THEN /\ pc' = [pc EXCEPT ![t] = "idle"]
               /\ local' = [local EXCEPT ![t].returned = "False"]
               /\ UNCHANGED <<procs, nextPid>>
          ELSE /\ nextPid <= MaxProcs
               /\ procs' = procs \cup {nextPid}
               /\ nextPid' = nextPid + 1
               /\ local' = [local EXCEPT ![t].process = nextPid]
               /\ pc' = [pc EXCEPT ![t] = "record"]
    /\ UNCHANGED <<info, audioProcess>>
    /\ PlayUnchanged

\* with _playback_control_lock: _current_playback_info = PlaybackInfo(...);
\* _current_audio_process = process
PlayRecord(t) ==
    /\ pc[t] = "record"
    /\ info' = PlaybackInfo(1, 1, local[t].process)
    /\ audioProcess' = local[t].process
    /\ pc' = [pc EXCEPT ![t] = "wait"]
    /\ UNCHANGED <<procs, nextPid, local>>
    /\ PlayUnchanged

\* macOS: process.wait(timeout=300), process.kill() on the timeout;
\* Windows: time.sleep(0.5) and process.poll(); return True
PlayWait(t) ==
    /\ pc[t] = "wait"
    /\ IF system = "darwin"
       THEN \/ /\ local[t].process \notin procs
               /\ UNCHANGED procs
            \/ /\ local[t].process \in procs
               /\ procs' = procs \ {local[t].process}
       ELSE UNCHANGED procs
    /\ pc' = [pc EXCEPT ![t] = "idle"]
    /\ local' = [local EXCEPT ![t].returned = "True"]
    /\ UNCHANGED <<nextPid, info, audioProcess>>
    /\ PlayUnchanged

PlayInit ==
    /\ system \in Systems
    /\ now = 0
    /\ entries = <<>>
    /\ files = {}
    /\ nextId = 1
    /\ procs = {}
    /\ nextPid = 1
    /\ info = NoInfo
    /\ audioProcess = NoProc
    /\ ncalls = 0
    /\ quiet = FALSE
    /\ last = NoCall
    /\ cacheOp = NoOp
    /\ ThreadsIdle
    /\ IndexIdle
    /\ SplitIdle
    /\ SynIdle
    /\ AuxIdle

PlayNext ==
    \/ \E t \in Threads : PlayBegin(t)
    \/ \E t \in Threads : PlayStop(t)
    \/ \E t \in Threads : PlayLaunch(t)
    \/ \E t \in Threads : PlayRecord(t)
    \/ \E t \in Threads : PlayWait(t)
    \/ StopAudio
    \/ ProcessExits

SpecPlay == PlayInit /\ [][PlayNext]_vars

(***************************************************************************)
(* play_audio_file_sync called by sequential callers: a call begins when   *)
(* no other call is under way.  On Windows the player of a call that has   *)
(* returned can still run when the next call begins.                       *)
(***************************************************************************)
SeqBegin(t) ==
    /\ \A u \in Threads : pc[u] = "idle"
    /\ PlayBegin(t)

SeqNext ==
    \/ \E t \in Threads : SeqBegin(t)
    \/ \E t \in Threads : PlayStop(t)
    \/ \E t \in Threads : PlayLaunch(t)
    \/ \E t \in Threads : PlayRecord(t)
    \/ \E t \in Threads : PlayWait(t)
    \/ ProcessExits

SpecSeq == PlayInit /\ [][SeqNext]_vars

(***************************************************************************)
(* Sequential callers of play_audio_file_sync and, from another thread,    *)
(* stop_audio_playback at any moment.  A call that has reached its wait    *)
(* gets on: the player exits, or the wait times out.                       *)
(***************************************************************************)
\* a play_audio_file_sync that keeps _playback_control_lock while it waits
LockedPlaces_wait == {"wait"}

\* the places between two steps at which a thread of play_audio_file_sync
\* holds _playback_control_lock: none, the `with` block is the step
\* PlayRecord and the wait for the player comes after it
LockedPlaces == {}

\* stop_audio_playback() called from a thread that plays nothing: it gets
\* _playback_control_lock when no other thread holds it
CancelStop ==
    /\ \A t \in Threads : pc[t] \notin LockedPlaces
    /\ StopAudio

CancelNext ==
    \/ \E t \in Threads : SeqBegin(t)
    \/ \E t \in Threads : PlayStop(t)
    \/ \E t \in Threads : PlayLaunch(t)
    \/ \E t \in Threads : PlayRecord(t)
    \/ \E t \in Threads : PlayWait(t)
    \/ CancelStop
    \/ ProcessExits

SpecCancel ==
    /\ PlayInit
    /\ [][CancelNext]_vars
    /\ \A t \in Threads : WF_vars(PlayWait(t))

(***************************************************************************)
(* play_audio_file_sync with speed and volume: the temporary file of the   *)
(* effects and the thread that deletes it.  One caller plays, call after   *)
(* call; the cleanup threads of earlier calls and the players run beside   *)
(* it.                                                                     *)
(***************************************************************************)
\* filepath, the file the caller hands over
OriginalFile == 1

\* tempfile.NamedTemporaryFile(delete=False, suffix='.mp3'): the n-th name
TempFile(n) == OriginalFile + n

\* apply_audio_effects(input_file, output_file, speed, volume): what it
\* returns; output_file is written in every case (the effects, or a copy)
apply_audio_effects(pydub_available, raises) ==
    IF ~pydub_available THEN TRUE
    ELSE ~raises

\* `if final_file != filepath:` a cleanup thread is started
CleanupNeeded(final_file) == final_file # OriginalFile

EffectsUnchanged ==
    /\ UNCHANGED <<system, cacheVars, callVars, stopCall, diskVars, threadVars>>
    /\ UNCHANGED <<splitVars, synVars, depVars, mergeCall, k8sVars>>

\* the call starts: os.path.exists(filepath), get_audio_player(), and the
\* effects when speed or volume is not 1.0 (identity: both are 1.0, as in
\* every call once MaxTemps temporary files were made)
EffectsBegin ==
    /\ fx.pc = "idle"
    /\ \E exists \in BOOLEAN,
          identity \in (IF fx.created < MaxTemps THEN BOOLEAN ELSE {TRUE}),
          pydub_available \in BOOLEAN, raises \in BOOLEAN :
          IF ~exists \/ ~PlayerFound(system)
          THEN fx' = [fx EXCEPT !.returned = "False", !.temp_file = NoId,
                                !.final_file = NoId, !.process = NoProc]
          ELSE IF identity
          THEN fx' = [fx EXCEPT !.pc = "stop", !.returned = "none",
                                !.temp_file = NoId,
                                !.final_file = OriginalFile,
                                !.process = NoProc]
          ELSE LET temp_file == TempFile(fx.created + 1)
               IN  fx' = [fx EXCEPT !.pc = "stop", !.returned = "none",
                                    !.created = @ + 1,
                                    !.temps = @ \cup {temp_file},
                                    !.temp_file = temp_file,
                                    !.final_file =
                                        IF apply_audio_effects(pydub_available,
                                                               raises)
                                        THEN temp_file ELSE OriginalFile,
                                    !.process = NoProc]
    /\ UNCHANGED playVars
    /\ EffectsUnchanged

\* stop_audio_playback()
EffectsStop ==
    /\ fx.pc = "stop"
    /\ \E outcome \in StopOutcomes : SetGlobals(stop_audio_playback(Globals, outcome))
    /\ fx' = [fx EXCEPT !.pc = "launch"]
    /\ UNCHANGED nextPid
    /\ EffectsUnchanged

\* process = subprocess.Popen(cmd, ...); `return False` when it raises
EffectsLaunch ==
    /\ fx.pc = "launch"
    /\ \E launchFails \in BOOLEAN :
          IF launchFails
          THEN /\ fx' = [fx EXCEPT !.pc = "idle", !.returned = "False"]
               /\ UNCHANGED <<procs, nextPid>>
          ELSE /\ nextPid <= MaxProcs
               /\ procs' = procs \cup {nextPid}
               /\ nextPid' = nextPid + 1
               /\ fx' = [fx EXCEPT !.pc = "record", !.process = nextPid,
                                   !.plays = @ \cup {<<nextPid, fx.final_file>>}]
    /\ UNCHANGED <<info, audioProcess>>
    /\ EffectsUnchanged

\* with _playback_control_lock: _current_playback_info = PlaybackInfo(...);
\* _current_audio_process = process
EffectsRecord ==
    /\ fx.pc = "record"
    /\ info' = PlaybackInfo(OriginalFile, fx.final_file, fx.process)
    /\ audioProcess' = fx.process
    /\ fx' = [fx EXCEPT !.pc = "wait"]
    /\ UNCHANGED <<procs, nextPid>>
    /\ EffectsUnchanged

\* macOS: process.wait(timeout=300), process.kill() on the timeout;
\* Windows: time.sleep(0.5) and process.poll(); then the cleanup thread is
\* started and True returned.  An exception on the way (of the wait, of
\* kill(), of the start of the thread) ends the call in the handler of the
\* last lines: False is returned, no thread is started
EffectsWait ==
    /\ fx.pc = "wait"
    /\ IF system = "darwin"
       THEN \/ /\ fx.process \notin procs
               /\ UNCHANGED procs
            \/ /\ fx.process \in procs
               /\ procs' = procs \ {fx.process}
       ELSE UNCHANGED procs
    /\ \E raised \in BOOLEAN :
          fx' = [fx EXCEPT !.pc = "idle",
                           !.returned = IF raised THEN "False" ELSE "True",
                           !.cleanups =
                               IF ~raised /\ CleanupNeeded(fx.final_file)
                               THEN @ \cup {fx.final_file} ELSE @]
    /\ UNCHANGED <<nextPid, info, audioProcess>>
    /\ EffectsUnchanged

\* cleanup(), in its daemon thread: time.sleep(2), then os.unlink(final_file)
\* when the file exists; an exception of os.unlink is printed
EffectsCleanup(f) ==
    /\ f \in fx.cleanups
    /\ \E unlinkFails \in BOOLEAN :
          fx' = [fx EXCEPT !.cleanups = @ \ {f},
                           !.temps = IF unlinkFails THEN @ ELSE @ \ {f},
                           !.unlinked_alive =
                               IF /\ ~unlinkFails
                                  /\ f \in fx.temps
                                  /\ \E p \in procs : <<p, f>> \in fx.plays
                               THEN @ \cup {f} ELSE @]
    /\ UNCHANGED playVars
    /\ EffectsUnchanged

EffectsInit == PlayInit

EffectsNext ==
    \/ EffectsBegin
    \/ EffectsStop
    \/ EffectsLaunch
    \/ EffectsRecord
    \/ EffectsWait
    \/ \E f \in fx.cleanups : EffectsCleanup(f)
    \/ ProcessExits

SpecEffects == EffectsInit /\ [][EffectsNext]_vars

\* the call gets on from step to step, every cleanup thread runs
SpecEffectsFair ==
    /\ SpecEffects
    /\ WF_vars(EffectsStop)
    /\ WF_vars(EffectsLaunch)
    /\ WF_vars(EffectsRecord)
    /\ WF_vars(EffectsWait)
    /\ \A n \in 1..MaxTemps : WF_vars(EffectsCleanup(TempFile(n)))
    /\ WF_vars(ProcessExits)

(***************************************************************************)
(* Properties of the playback controller, the cache and text_to_speech.    *)
(***************************************************************************)
\* C1: playback mutual exclusion: in every state at most one player process
\* is alive, and when no thread is between the start of a playback and its
\* recording, a live process is the one recorded in the playback state.
C1_PlaybackMutualExclusion ==
    /\ Cardinality(procs) <= 1
    /\ (\A t \in Threads : pc[t] \in {"idle", "wait"}) =>
           \A p \in procs : info.process = p

\* C2: cache size bound: after every add_to_cache call that returns, the
\* index has at most MAX_CACHE_FILES entries.
C2_CacheSizeBound ==
    (cacheOp.op = "add" /\ ~cacheOp.raised) => Len(entries) <= MAX_CACHE_FILES

\* C3: capacity eviction is oldest-first and spares the new entry: every
\* entry add_to_cache removed for capacity was created no later than every
\* entry that remains, and the entry the call created is in the index when
\* the call returns.
C3_EvictionOldestFirst ==
    cacheOp.op = "add" =>
        /\ \A c \in cacheOp.evicted_created :
              \A k \in 1..Len(entries) : c <= entries[k].created_at
        /\ ~cacheOp.raised => \E k \in 1..Len(entries) : entries[k] = cacheOp.entry

\* an add_to_cache that removed an entry for capacity and returned
C3_Witness ==
    cacheOp.op = "add" /\ cacheOp.evicted_created # {} /\ ~cacheOp.raised

\* C4: expiry: find_cached_audio never returns an entry created before the
\* retention window of CACHE_RETENTION_HOURS that ends at the time of the
\* call.
C4_FindNeverReturnsExpired ==
    (cacheOp.op = "find" /\ cacheOp.found) =>
        cacheOp.entry.created_at >= cacheOp.time - CACHE_RETENTION_HOURS

\* a lookup that missed while the index held an expired entry of its key
\* whose audio file existed
C4_Witness == cacheOp.op = "find" /\ cacheOp.stale /\ ~cacheOp.found

\* the call before the last one was given the same text and voice, and
\* nothing happened between the two
SameAsPrevious ==
    /\ last.called
    /\ last.prev.called
    /\ last.prev.text = last.text
    /\ last.prev.voice = last.voice

\* served from the cache: no synthesis, and the file handed to the player is
\* the one the previous call stored
ServedFromPrevious ==
    /\ last.hit
    /\ ~last.synth_called
    /\ last.played = last.prev.added

C6_CacheKeySeparation ==
    (cacheOp.op = "find" /\ cacheOp.found) =>
        /\ cacheOp.entry.text_preview = TextPreview(cacheOp.text)
        /\ cacheOp.entry.voice = cacheOp.voice

\* C7: dedup invariant: in every state no two entries of the index share a
\* text_hash.
C7_DedupInvariant ==
    \A j, k \in 1..Len(entries) :
        entries[j].text_hash = entries[k].text_hash => j = k

\* C8: failed synthesis leaves no trace: when a chunk fails on every attempt,
\* text_to_speech returns the failure text, the index has no entry the call
\* created, and the call started no player process.
C8_FailedSynthesisLeavesNoTrace ==
    (last.called /\ last.exhausted) =>
        /\ last.result = "Error in Edge TTS conversion: Synthesis failed"
        /\ last.added = NoId
        /\ \A k \in 1..Len(entries) : entries[k].file_id < last.first_new_id
        /\ ~last.launched

\* a call of three chunks in which a chunk failed on every attempt
C8_Witness ==
    last.called /\ last.exhausted /\ Len(smart_text_split(last.text)) = 3

\* C9: the artifacts handed to merge_audio_files are in split order: the
\* i-th file merged is the file synthesized for the i-th chunk.
C9_MergeInSplitOrder ==
    (synDone /\ synResult.merge_called) =>
        /\ Len(synResult.merge_input) = Len(synChunks)
        /\ \A i \in 1..Len(synChunks) :
              synResult.merge_input[i] = ChunkFileName(i)

\* C10: every chunk smart_text_split returns is at most FIXED_CHUNK_SIZE
\* characters long, the chunks the short-chunk post-pass merged included.
C10_ChunkSizeBound ==
    splitDone =>
        \A i \in 1..Len(splitChunks) : StrLen(splitChunks[i]) <= FIXED_CHUNK_SIZE

(***************************************************************************)
(* Properties of smart_text_split.                                         *)
(***************************************************************************)
\* the text without its whitespace
RECURSIVE RemoveWhitespace(_)
RemoveWhitespace(s) ==
    IF s = <<>> THEN <<>>
    ELSE IF s[1].ch \in Whitespace THEN RemoveWhitespace(Tail(s))
    ELSE Cat(<<s[1]>>, RemoveWhitespace(Tail(s)))

\* "".join(chunks)
RECURSIVE JoinChunks(_)
JoinChunks(chunks) ==
    IF chunks = <<>> THEN EmptyStr
    ELSE Cat(chunks[1], JoinChunks(Tail(chunks)))

\* C11: chunking loses and reorders nothing: the chunks of a text, joined in
\* order, are the text but for whitespace.
C11_ChunksKeepTheText ==
    splitDone =>
        RemoveWhitespace(JoinChunks(splitChunks)) = RemoveWhitespace(splitText)

\* a text split into several chunks, with whitespace trimmed away
C11_Witness ==
    /\ splitDone
    /\ Len(splitChunks) >= 2
    /\ StrLen(JoinChunks(splitChunks)) < StrLen(splitText)

\* C12: no empty chunk: every chunk smart_text_split returns is non-empty,
\* for every text, the empty one included.
C12_NoEmptyChunk ==
    splitDone => \A i \in 1..Len(splitChunks) : splitChunks[i] # EmptyStr

\* C13: short input is not split: a text of at most FIXED_CHUNK_SIZE
\* characters comes back as one chunk, the whole text.
C13_ShortInputNotSplit ==
    (splitDone /\ StrLen(splitText) <= FIXED_CHUNK_SIZE) =>
        splitChunks = <<splitText>>

\* a short text of several sentences with whitespace around it
C13_Witness ==
    /\ splitDone
    /\ Len(splitText) = 3
    /\ StrLen(splitText) <= FIXED_CHUNK_SIZE
    /\ splitText[1].ch \in Whitespace
    /\ splitText[2].ch \in SentenceEndings
    /\ splitChunks = <<splitText>>

(***************************************************************************)
(* Properties of synthesize_chunk.                                         *)
(***************************************************************************)
\* at most MAX_RETRIES + 1 attempts; success at the first attempt that
\* leaves the audio; failure only after MAX_RETRIES + 1 failed attempts
BoundedRetry ==
    /\ chunkCall.api_calls <= MAX_RETRIES + 1
    /\ chunkCall.ok =>
           /\ chunkCall.api_calls >= 1
           /\ chunkCall.outcomes[chunkCall.api_calls] = "ok"
           /\ \A j \in 1..(chunkCall.api_calls - 1) : chunkCall.outcomes[j] # "ok"
    /\ ~chunkCall.ok =>
           /\ chunkCall.api_calls = MAX_RETRIES + 1
           /\ \A j \in 1..(MAX_RETRIES + 1) : chunkCall.outcomes[j] # "ok"

C15_StopAlwaysClears ==
    stopCall.called =>
        /\ stopCall.cleared
        /\ stopCall.result = "Audio playback stopped successfully"

\* a stop of a running player in which terminating and killing both raised
C15_Witness ==
    stopCall.called /\ stopCall.playing /\ stopCall.outcome = "error_alive"

(***************************************************************************)
(* Properties of the index file.                                           *)
(***************************************************************************)
\* C16: crash-safe index: in every state, a save in progress included, the
\* index file loads to a state that holds every entry the completed saves
\* have committed.
C16_CrashSafeIndex ==
    \A k \in 1..Len(indexOp.committed) :
        \E j \in 1..Len(AudioCache_load_cache_index(indexFile)) :
            AudioCache_load_cache_index(indexFile)[j].file_id =
                indexOp.committed[k].file_id

\* C19: corrupt index recovery: loading an index file that is unreadable or
\* malformed yields an empty cache, and an insert made afterwards is in the
\* cache.
C19_CorruptIndexLoadsEmpty ==
    indexOp.loaded_kind \in CorruptKinds =>
        /\ indexOp.loaded = <<>>
        /\ (cacheOp.op = "add" /\ ~cacheOp.raised) =>
               \E k \in 1..Len(entries) : entries[k] = cacheOp.entry

\* the process was started on a malformed index file that held records, and
\* a lookup after an insert has found the inserted entry
C19_Witness ==
    /\ indexOp.loaded_kind = "malformed"
    /\ indexOp.loaded_records > 0
    /\ cacheOp.op = "find"
    /\ cacheOp.found

\* C18: self-healing lookup: find_cached_audio never returns an entry whose
\* audio file does not exist, reports a miss when no entry of the key that
\* is within the retention window has its file, and leaves in the index,
\* unchanged, every entry of the key whose file does not exist and that is
\* within the retention window.
C18_MissingFileIsMiss ==
    cacheOp.op = "find" =>
        /\ cacheOp.found => cacheOp.entry \notin cacheOp.missing
        /\ ~cacheOp.present => ~cacheOp.found
        /\ \A e \in cacheOp.missing :
              e.created_at >= cacheOp.time - CACHE_RETENTION_HOURS =>
                  e \in cacheOp.kept

\* a lookup that missed on a key whose only entry, within the retention
\* window, had lost its audio file, and the entry is still in the index
C18_Witness ==
    /\ cacheOp.op = "find"
    /\ ~cacheOp.found
    /\ \E e \in cacheOp.missing :
          /\ e.created_at >= cacheOp.time - CACHE_RETENTION_HOURS
          /\ e \in cacheOp.kept

\* C20: playback failure is not fatal: when synthesize_long_text succeeded
\* and play_audio_file_sync then failed, text_to_speech returns "Audio
\* generated but playback failed", and the cache holds the entry
\* add_to_cache made for the text and voice of the call.
C20_PlaybackFailureNotFatal ==
    (last.called /\ last.synth_ok /\ last.play_called /\ ~last.launched) =>
        /\ last.result = "Audio generated but playback failed"
        /\ \E k \in 1..Len(entries) :
              /\ entries[k].file_id = last.added
              /\ entries[k].text_hash =
                     AudioCache_generate_text_hash(last.text, last.voice)

\* a call that missed the cache, synthesized the text, and could not start
\* the player
C20_Witness ==
    /\ last.called
    /\ ~last.hit
    /\ last.synth_ok
    /\ last.play_called
    /\ ~last.launched
    /\ last.added # NoId

\* the playback_count of the entries, added up
RECURSIVE TotalPlaybackCount(_)
TotalPlaybackCount(es) ==
    IF es = <<>> THEN 0
    ELSE Head(es).playback_count + TotalPlaybackCount(Tail(es))

\* C17: serialized cache mutation: when no text_to_speech call is inside the
\* cache, every update_playback_stats that ran is counted in a playback_count,
\* every entry add_to_cache inserted is in the cache, and the index file
\* holds exactly the entries of the cache.
C17_SerializedCacheMutation ==
    (\A t \in Threads : pc[t] = "idle") =>
        /\ TotalPlaybackCount(entries) = indexOp.stats_updates
        /\ \A k \in 1..Len(indexOp.committed) :
              indexOp.committed[k].file_id \in EntryIds(entries)
        /\ AudioCache_load_cache_index(indexFile) = entries

MissingCapabilities(sys, env) ==
    (IF sys \notin {"darwin", "windows"} THEN {"platform"} ELSE {})
        \cup (IF ~env["edge_tts"] THEN {"edge_tts"} ELSE {})
        \cup (IF sys \in {"darwin", "windows"} /\ ~env["player"]
              THEN {"player"} ELSE {})
        \cup (IF ~env["cache_dir"] THEN {"cache_dir"} ELSE {})

\* C23: aggregated diagnostic is complete: when check_system_dependencies
\* has run its checks and failed, the diagnostic lists every capability
\* that is missing among platform support, synthesis library, audio player
\* and cache-directory writability.
C23_DiagnosticComplete ==
    (depCall.called /\ depCall.ran /\ ~depCall.result.ready) =>
        MissingCapabilities(depCall.system, depCall.env)
            \subseteq depCall.result.errors

\* C22: capability check fails fast: a text_to_speech call made where a
\* capability is missing returns the diagnostic and has touched nothing:
\* the cache, its files and its index file, the playback state and the
\* processes are as before the call, nothing was synthesized and no player
\* was launched.
C22_CapabilityCheckFailsFast ==
    (last.called /\ ~RunDependencyChecks(system, depEnv).ready) =>
        /\ last.result = "Dependency Check Failed"
        /\ last.untouched
        /\ ~last.hit
        /\ ~last.synth_called
        /\ last.added = NoId
        /\ ~last.play_called
        /\ ~last.launched

\* a call on a supported platform without the synthesis library, while the
\* cache held an expired entry that a lookup would have removed
C22_Witness ==
    /\ last.called
    /\ system = "windows"
    /\ ~depEnv["edge_tts"]
    /\ last.result = "Dependency Check Failed"
    /\ \E k \in 1..Len(entries) :
          entries[k].created_at < now - CACHE_RETENTION_HOURS

\* the texts text_to_speech returns
ResultTexts ==
    {"Dependency Check Failed",
     "Playing cached audio", "Found cached audio but playback failed",
     "Playing generated audio", "Audio generated but playback failed",
     "Error in Edge TTS conversion: Synthesis failed",
     "Error in Edge TTS conversion: exception"}

\* C24: no failure crosses the tool boundary: whatever fails among the
\* synthesis, the merge, the copy into the cache, the writing of the index
\* file and the launch of the player, text_to_speech returns one of its
\* texts and raises nothing; a failed synthesis or merge and a failed copy
\* are reported as a conversion error, a failed launch as a playback
\* failure.
C24_NoFailureCrossesBoundary ==
    last.called =>
        /\ ~last.raised
        /\ last.result \in ResultTexts
        /\ last.failures \cap {"synthesis", "merge"} # {} =>
               last.result = "Error in Edge TTS conversion: Synthesis failed"
        /\ "copy" \in last.failures =>
               last.result = "Error in Edge TTS conversion: exception"
        /\ "launch" \in last.failures =>
               last.result \in {"Found cached audio but playback failed",
                                "Audio generated but playback failed"}

\* a call during which the index file could not be written and the player
\* could not be launched
C24_Witness ==
    /\ last.called
    /\ {"save", "launch"} \subseteq last.failures
    /\ last.synth_ok

(***************************************************************************)
(* Properties of merge_audio_files.                                        *)
(***************************************************************************)
\* the files of the list that are there, in the order of the list
FilesThere(audio_files, existing) ==
    SelectSeq(audio_files, LAMBDA f : f \in existing)

C26_SafetyGating ==
    (/\ k8sCall.called
     /\ k8s.readonly \/ k8s.disable_destructive)
        => /\ k8sCall.tool \in WritingTools
                  => /\ k8sCall.refused
                     /\ k8sCall.ops = <<>>
           /\ \A i \in 1..Len(k8sCall.ops) :
                  k8sCall.ops[i] \notin {"create", "patch", "delete"}

\* C27: in add_to_cache the expiry sweep runs before capacity is evaluated:
\* an entry that is not expired is evicted only when more than
\* MAX_CACHE_FILES entries are not expired; the file is copied and the new
\* entry appended and persisted only after both sweeps, so the new entry is
\* the last one, is not swept itself, and nothing is appended or persisted
\* when the copy raises after the sweeps.
C27_InsertOrder ==
    cacheOp.op = "add" =>
        LET swept == IF cacheOp.unexpired > MAX_CACHE_FILES
                     THEN MAX_CACHE_FILES ELSE cacheOp.unexpired
        IN  /\ cacheOp.kept_unexpired < cacheOp.unexpired
                   => cacheOp.unexpired > MAX_CACHE_FILES
            /\ cacheOp.kept_unexpired = swept
            /\ ~cacheOp.raised => /\ cacheOp.is_last
                                  /\ cacheOp.persisted
                                  /\ cacheOp.size_after = swept + 1
            /\ cacheOp.raised => /\ ~cacheOp.is_last
                                 /\ ~cacheOp.persisted
                                 /\ cacheOp.size_after = swept

\* an insert into an index of more than MAX_CACHE_FILES entries of which
\* some have expired: no entry that is not expired is evicted
C27_Witness ==
    /\ cacheOp.op = "add"
    /\ ~cacheOp.raised
    /\ cacheOp.total > MAX_CACHE_FILES
    /\ cacheOp.unexpired \in 1..MAX_CACHE_FILES
    /\ cacheOp.kept_unexpired = cacheOp.unexpired

C29_BackoffDelayBounds ==
    (chunkCall.done /\ StrStrip(chunkCall.text) # EmptyStr) =>
        LET failed == LeadingFailures(chunkCall.outcomes)
            Least(n) == IF BASE_DELAY * (2 ^ n) <= MAX_DELAY
                        THEN BASE_DELAY * (2 ^ n) ELSE MAX_DELAY
        IN  /\ Len(chunkCall.delays) =
                   (IF failed <= MAX_RETRIES THEN failed ELSE MAX_RETRIES)
            /\ Len(chunkCall.delays) = chunkCall.api_calls - 1
            /\ \A k \in 1..Len(chunkCall.delays) :
                   LET n == k - 1
                   IN  /\ chunkCall.sleeps[k] = n
                       /\ chunkCall.jitters[k] \in 0..JitterSteps
                       /\ chunkCall.delays[k] >= Least(n) * JitterSteps
                       /\ chunkCall.delays[k] <=
                              (BASE_DELAY * (2 ^ n) + 1) * JitterSteps
                       /\ chunkCall.delays[k] <= MAX_DELAY * JitterSteps
                       /\ chunkCall.delays[k] =
                              (IF BASE_DELAY * (2 ^ n) * JitterSteps
                                     + chunkCall.jitters[k]
                                     <= MAX_DELAY * JitterSteps
                               THEN BASE_DELAY * (2 ^ n) * JitterSteps
                                        + chunkCall.jitters[k]
                               ELSE MAX_DELAY * JitterSteps)

\* every attempt failed: a delay without jitter after the first, one with
\* the whole jitter after the last but one, and none after the last
C29_Witness ==
    /\ chunkCall.done
    /\ ~chunkCall.ok
    /\ chunkCall.api_calls = MAX_RETRIES + 1
    /\ Len(chunkCall.delays) = MAX_RETRIES
    /\ chunkCall.jitters[1] = 0
    /\ chunkCall.delays[1] = BASE_DELAY * JitterSteps
    /\ chunkCall.jitters[MAX_RETRIES] = JitterSteps
    /\ chunkCall.delays[MAX_RETRIES] =
           (BASE_DELAY * (2 ^ (MAX_RETRIES - 1)) + 1) * JitterSteps

\* C30: for an empty or whitespace-only text synthesize_chunk returns in
\* its first attempt, reporting failure, without calling the synthesis API,
\* without sleeping and without any retry.
C30_BlankTextSkipped ==
    (chunkCall.done /\ StrStrip(chunkCall.text) = EmptyStr) =>
        /\ ~chunkCall.ok
        /\ chunkCall.api_calls = 0
        /\ chunkCall.attempts = 1
        /\ chunkCall.sleeps = <<>>
        /\ chunkCall.delays = <<>>

\* a call on a text of one blank, with an API that would have failed
C30_Witness ==
    /\ chunkCall.done
    /\ chunkCall.text = <<Run(" ", 1)>>
    /\ chunkCall.outcomes[1] = "raises"
    /\ ~chunkCall.ok
    /\ chunkCall.api_calls = 0

Blocked(t) ==
    /\ system = "darwin"
    /\ pc[t] = "wait"
    /\ local[t].process \in procs
    /\ info.process = local[t].process

\* a step of stop_audio_playback from another thread
StopStep == info' = NoInfo /\ pc' = pc /\ stopCall'.called

C34_EffectsFileOutlivesPlayback == fx.unlinked_alive = {}

\* C35: every temporary effects artifact play_audio_file_sync creates is
\* eventually deleted, on every path.
C35_EffectsFilesDeleted ==
    \A n \in 1..MaxTemps : (TempFile(n) \in fx.temps) ~> (TempFile(n) \notin fx.temps)

\* the playback_count of the entry file_id, 0 when the index has none
CountOf(es, file_id) ==
    IF \E k \in 1..Len(es) : es[k].file_id = file_id
    THEN es[CHOOSE k \in 1..Len(es) : es[k].file_id = file_id].playback_count
    ELSE 0

\* the call played the entry file_id: play_audio_file_sync returned True
PlayedBy(call, file_id) ==
    /\ call.play_called
    /\ call.played = file_id
    /\ call.result \in {"Playing cached audio", "Playing generated audio"}

\* C36: a text_to_speech call that plays a cache entry, found or newly
\* added, increases the playback_count of that entry by exactly one and
\* sets its last_played; no step decreases a playback_count, and a call that
\* did not play an entry leaves its playback_count as it was.
C36_PlaybackStatistics ==
    [][\A file_id \in 1..nextId :
          (\E k \in 1..Len(entries') : entries'[k].file_id = file_id)
             => IF ncalls' = ncalls + 1 /\ PlayedBy(last', file_id)
                THEN /\ CountOf(entries', file_id) = CountOf(entries, file_id) + 1
                     /\ \A k \in 1..Len(entries') :
                           entries'[k].file_id = file_id
                              => entries'[k].last_played = now
                ELSE CountOf(entries', file_id) = CountOf(entries, file_id)]_vars

\* the segments fs in order, with "silence" between consecutive ones only
RECURSIVE Separated(_)
Separated(fs) ==
    IF Len(fs) <= 1 THEN fs
    ELSE <<Head(fs), "silence">> \o Separated(Tail(fs))

\* C37: when merge_audio_files merges n >= 2 artifacts in quality mode, the
\* result is the segments in input order with a 200 ms silence between
\* consecutive segments only: n - 1 gaps, none after the last segment.
C37_SilenceBetweenSegments ==
    (/\ mergeCall.done
     /\ mergeCall.mode = "quality"
     /\ Len(mergeCall.audio_files) >= 2
     /\ \A k \in 1..Len(mergeCall.audio_files) :
           mergeCall.audio_files[k] \in mergeCall.existing)
        => /\ mergeCall.merged = Separated(mergeCall.audio_files)
           /\ Cardinality({k \in 1..Len(mergeCall.merged) :
                               mergeCall.merged[k] = "silence"})
                 = Len(mergeCall.audio_files) - 1
           /\ mergeCall.merged[Len(mergeCall.merged)] # "silence"

\* C38: after find_cached_audio, add_to_cache or update_playback_stats has
\* completed, the index file lists exactly the entries held in memory: a
\* restart would load the same entries.
C38_IndexMatchesMemory ==
    (cacheOp.op \in {"find", "add", "stats"} /\ ~indexOp.saving)
        => AudioCache_load_cache_index(indexFile) = entries

\* C39: whenever the playback state is present its process is still
\* running: once the process has exited on its own or was killed on the
\* timeout of the wait, no PlaybackInfo is recorded.
C39_PlayingStateTracksProcess ==
    info # NoInfo => info.process \in procs

====
